---- MODULE Spec2Model ----
(***************************************************************************)
(* A model of strawberride: the Tilemap grid (src/src/tilemap.rs), the     *)
(* stream primitives (src/src/ext.rs) and the typed map layer              *)
(* (src/src/map_serde.rs, src/src/lib.rs).                                 *)
(*                                                                         *)
(* Integer widths are scaled: usize has UsizeBits bits instead of 64, so   *)
(* that an overflowing product is a small number TLC can reach.            *)
(***************************************************************************)
EXTENDS Integers, Sequences, FiniteSets, TLC

VARIABLES
    kind,     \* Tilemap<T>: which cell type T is, "i32" or "char"
    width,    \* Tilemap::width
    height,   \* Tilemap::height
    data,     \* Tilemap::data, the row-major Vec<T>
    call,     \* the last call made on the tilemap and what it returned
    ub,       \* an unchecked access has left the Vec's storage
    orig,     \* resize scenario: the grid before the shrink
    phase,    \* which specification runs, and the position in its scenario
    input,    \* codec scenarios: the value handed to the writer
    written,  \* the bytes the writer produced
    stream,   \* the bytes the reader is given
    result    \* what the reader returned

vars == <<kind, width, height, data, call, ub, orig, phase,
          input, written, stream, result>>

codec == <<input, written, stream, result>>
grid == <<kind, width, height, data, call, ub, orig>>

(***************************************************************************)
(* Bounds of the model.                                                    *)
(***************************************************************************)
\* usize::BITS, scaled down from 64 (8 = 7 + 1 as 64 = 9 * 7 + 1)
UsizeBits == 8
\* widths and heights 0..MaxDim are tried, and one half-word dimension
MaxDim == 2
\* the longest Vec the model allocates
MaxCells == 6

UsizeMax == 2 ^ UsizeBits - 1
HalfWord == 2 ^ (UsizeBits - 1)
Dims == (0 .. MaxDim) \cup {HalfWord}

Min(a, b) == IF a < b THEN a ELSE b

\* Option<T>: None is the empty tuple, Some(v) the tuple of v
None == << >>
Some(v) == <<v>>

(***************************************************************************)
(* seal::TilemapCell                                                       *)
(***************************************************************************)
\* a char cell is its code point: '0' is 48, 'a' is 97
EMPTY(k) == IF k = "i32" THEN -1 ELSE 48
\* the cell values the model writes: the empty sentinel and one tile
Cells(k) == IF k = "i32" THEN {-1, 5} ELSE {48, 97}

\* a multiplication that wraps instead of reporting the overflow
checked_mul_wrapping(a, b) == Some((a * b) % (UsizeMax + 1))

\* usize::checked_mul
checked_mul(a, b) ==
    IF a = 0 \/ b <= UsizeMax \div a THEN Some(a * b) ELSE None

\* iter::repeat(v).take(n).collect()
repeat_take(v, n) == [i \in 1 .. n |-> v]

\* Iterator::take(n) of a chunk
take(s, n) == SubSeq(s, 1, Min(n, Len(s)))

\* itertools chunks(size) of a sequence, for size > 0 (size = 0 panics)
RECURSIVE chunks(_, _)
chunks(s, size) ==
    IF s = << >> THEN << >>
    ELSE <<take(s, size)>> \o chunks(SubSeq(s, size + 1, Len(s)), size)

\* flat_map(f).collect() over a sequence of chunks
RECURSIVE flatten(_)
flatten(ss) == IF ss = << >> THEN << >> ELSE Head(ss) \o flatten(Tail(ss))

(***************************************************************************)
(* Tilemap::new: None when height * width overflows, else an all-EMPTY     *)
(* grid.                                                                   *)
(***************************************************************************)
new_data(k, w, h) ==
    IF checked_mul(h, w) = None THEN None
    ELSE Some(repeat_take(EMPTY(k), checked_mul(h, w)[1]))

(***************************************************************************)
(* Tilemap::set_width.  The result is "false" (rejected), "panic"          *)
(* (itertools' chunks asserts size != 0) or "true" with the new Vec.       *)
(***************************************************************************)
set_width_pad(k, w, d, new_width) ==
    flatten([i \in 1 .. Len(chunks(d, w)) |->
               chunks(d, w)[i] \o repeat_take(EMPTY(k), new_width - w)])

set_width_trunc(w, d, new_width) ==
    flatten([i \in 1 .. Len(chunks(d, w)) |-> take(chunks(d, w)[i], new_width)])

set_width(k, w, h, d, new_width) ==
    IF checked_mul(h, new_width) = None
    THEN [ret |-> "false", width |-> w, data |-> d]
    ELSE IF w = new_width
    THEN [ret |-> "true", width |-> new_width, data |-> d]
    ELSE IF w = 0
    THEN [ret |-> "panic", width |-> w, data |-> d]
    ELSE IF w < new_width
    THEN [ret |-> "true", width |-> new_width,
          data |-> set_width_pad(k, w, d, new_width)]
    ELSE [ret |-> "true", width |-> new_width,
          data |-> set_width_trunc(w, d, new_width)]

(***************************************************************************)
(* Tilemap::set_height.  The field height is never assigned; growing       *)
(* appends width * new_height cells; shrinking truncates to new_area.      *)
(***************************************************************************)
set_height_field(h, new_height) == h

set_height_grow(k, w, h, d, new_height) ==
    d \o repeat_take(EMPTY(k), w * new_height)

set_height(k, w, h, d, new_height) ==
    IF checked_mul(w, new_height) = None
    THEN [ret |-> "false", height |-> h, data |-> d]
    ELSE IF h = new_height
    THEN [ret |-> "true", height |-> set_height_field(h, new_height), data |-> d]
    ELSE IF h < new_height
    THEN [ret |-> "true", height |-> set_height_field(h, new_height),
          data |-> set_height_grow(k, w, h, d, new_height)]
    ELSE [ret |-> "true", height |-> set_height_field(h, new_height),
          data |-> take(d, checked_mul(w, new_height)[1])]

(***************************************************************************)
(* Tilemap::get / get_mut: the bounds check, then get_unchecked at         *)
(* width * y + x.                                                          *)
(***************************************************************************)
in_bounds(w, h, x, y) == x >= 0 /\ x < w /\ y >= 0 /\ y < h

offset(w, x, y) == w * y + x

\* what get can return: None out of bounds; the cell; any cell value when the
\* unchecked read leaves the Vec
get(k, w, h, d, x, y) ==
    IF ~in_bounds(w, h, x, y) THEN {None}
    ELSE IF offset(w, x, y) < Len(d) THEN {Some(d[offset(w, x, y) + 1])}
    ELSE {Some(c) : c \in Cells(k)}

(***************************************************************************)
(* The tilemap as a state machine: construction, resizes, reads, writes.   *)
(***************************************************************************)
Call(o, a, b, r) == [op |-> o, a |-> a, b |-> b, ret |-> r]

NoOrig == [width |-> 0, height |-> 0, data |-> << >>, w1 |-> 0, h1 |-> 0]

\* the codec variables, unused by the tilemap specifications
NoCodec ==
    /\ input = 0
    /\ written = << >>
    /\ stream = << >>
    /\ result = << >>

InitTilemap ==
    /\ kind \in {"i32", "char"}
    /\ \E w, h \in Dims :
          /\ new_data(kind, w, h) # None
          /\ Len(new_data(kind, w, h)[1]) <= MaxCells
          /\ width = w
          /\ height = h
          /\ data = new_data(kind, w, h)[1]
          /\ call = Call("new", w, h, "Some")
    /\ ub = FALSE
    /\ orig = NoOrig
    /\ phase = "tilemap"
    /\ NoCodec

New(w, h) ==
    /\ phase = "tilemap"
    /\ IF new_data(kind, w, h) = None
       THEN /\ call' = Call("new", w, h, "None")
            /\ UNCHANGED <<width, height, data>>
       ELSE /\ Len(new_data(kind, w, h)[1]) <= MaxCells
            /\ width' = w
            /\ height' = h
            /\ data' = new_data(kind, w, h)[1]
            /\ call' = Call("new", w, h, "Some")
    /\ UNCHANGED <<kind, ub, orig, phase, codec>>

SetWidth(new_width) ==
    /\ phase = "tilemap"
    /\ LET r == set_width(kind, width, height, data, new_width) IN
          /\ Len(r.data) <= MaxCells
          /\ width' = r.width
          /\ data' = r.data
          /\ call' = Call("set_width", new_width, 0, r.ret)
    /\ UNCHANGED <<kind, height, ub, orig, phase, codec>>

SetHeight(new_height) ==
    /\ phase = "tilemap"
    /\ LET r == set_height(kind, width, height, data, new_height) IN
          /\ Len(r.data) <= MaxCells
          /\ height' = r.height
          /\ data' = r.data
          /\ call' = Call("set_height", new_height, 0, r.ret)
    /\ UNCHANGED <<kind, width, ub, orig, phase, codec>>

Get(x, y) ==
    /\ phase = "tilemap"
    /\ \E r \in get(kind, width, height, data, x, y) :
          call' = Call("get", x, y, r)
    /\ ub' = (ub \/ (in_bounds(width, height, x, y)
                      /\ offset(width, x, y) >= Len(data)))
    /\ UNCHANGED <<kind, width, height, data, orig, phase, codec>>

\* *tilemap.get_mut(x, y)? = v
Write(x, y, v) ==
    /\ phase = "tilemap"
    /\ IF ~in_bounds(width, height, x, y)
       THEN /\ call' = Call("get_mut", x, y, None)
            /\ UNCHANGED <<data, ub>>
       ELSE IF offset(width, x, y) < Len(data)
       THEN /\ data' = [data EXCEPT ![offset(width, x, y) + 1] = v]
            /\ call' = Call("get_mut", x, y, Some(v))
            /\ UNCHANGED ub
       ELSE /\ ub' = TRUE
            /\ call' = Call("get_mut", x, y, Some(v))
            /\ UNCHANGED data
    /\ UNCHANGED <<kind, width, height, orig, phase, codec>>

NextTilemap ==
    \/ \E w, h \in Dims : New(w, h)
    \/ \E w \in Dims : SetWidth(w)
    \/ \E h \in Dims : SetHeight(h)
    \/ \E x, y \in 0 .. MaxDim : Get(x, y)
    \/ \E x, y \in 0 .. MaxDim : \E v \in Cells(kind) : Write(x, y, v)

SpecTilemap == InitTilemap /\ [][NextTilemap]_vars

(***************************************************************************)
(* Reading the grid the way a caller does.                                 *)
(***************************************************************************)
\* the cell stored at (x, y), or None when the offset is outside the Vec
CellAt(d, w, x, y) ==
    IF offset(w, x, y) < Len(d) THEN Some(d[offset(w, x, y) + 1]) ELSE None

Coords == 0 .. MaxDim

(***************************************************************************)
(* C2: in every state reachable by new, set_width, set_height and cell     *)
(* writes, the backing storage length equals width() * height().           *)
(***************************************************************************)
C2_LenIsArea == Len(data) = width * height

(***************************************************************************)
(* C3: get and get_mut return None whenever x >= width or y >= height, and *)
(* whenever they return a cell the offset width * y + x is below the       *)
(* storage length, so the unchecked accessor never leaves the Vec.         *)
(***************************************************************************)
C3_GetChecked ==
    /\ ~ub
    /\ \A x, y \in Coords :
          /\ (x >= width \/ y >= height)
                => get(kind, width, height, data, x, y) = {None}
          /\ in_bounds(width, height, x, y) => offset(width, x, y) < Len(data)

(***************************************************************************)
(* C4: when set_height(h') returns true, height() = h' and width() is      *)
(* unchanged; growing appends exactly (h' - old height) all-empty rows,    *)
(* shrinking removes the trailing rows, and every cell of a row below both *)
(* heights keeps its value.                                                *)
(***************************************************************************)
C4_SetHeight ==
    [][(call'.op = "set_height" /\ call'.ret = "true" /\ Len(data) = width * height)
         => /\ height' = call'.a
            /\ width' = width
            /\ Len(data') = width * call'.a
            /\ \A x, y \in Coords :
                  (x < width /\ y < call'.a)
                     => CellAt(data', width', x, y) =
                           (IF y < height THEN CellAt(data, width, x, y)
                                          ELSE Some(EMPTY(kind)))]_vars

(***************************************************************************)
(* C5: set_width never panics, whatever the starting width (0 included);   *)
(* when it returns true, width() = w' and height() is unchanged, every row *)
(* keeps its cells at x < min(old width, w'), and a wider row is padded on *)
(* the right with empty cells.                                             *)
(***************************************************************************)
C5_SetWidth ==
    [][(call'.op = "set_width" /\ Len(data) = width * height)
         => /\ call'.ret # "panic"
            /\ call'.ret = "true"
                 => /\ width' = call'.a
                    /\ height' = height
                    /\ Len(data') = call'.a * height
                    /\ \A x, y \in Coords :
                          (x < call'.a /\ y < height)
                             => CellAt(data', width', x, y) =
                                   (IF x < width THEN CellAt(data, width, x, y)
                                                 ELSE Some(EMPTY(kind)))]_vars

(***************************************************************************)
(* C6: new(w, h) returns None exactly when w * h overflows usize, and      *)
(* otherwise a w-by-h grid of empty sentinels (-1 for i32, '0' for char);  *)
(* set_width and set_height return false exactly when the new area         *)
(* overflows, and a rejected resize changes no field and no cell.          *)
(***************************************************************************)
Overflows(a, b) == a * b > UsizeMax

C6_NewResult ==
    call.op = "new"
       => /\ (call.ret = "None") <=> Overflows(call.a, call.b)
          /\ call.ret = "Some"
               => /\ width = call.a
                  /\ height = call.b
                  /\ Len(data) = call.a * call.b
                  /\ \A i \in 1 .. Len(data) :
                        data[i] = (IF kind = "i32" THEN -1 ELSE 48)

C6_Rejected ==
    /\ (call'.op = "set_width")
          => ((call'.ret = "false") <=> Overflows(height, call'.a))
    /\ (call'.op = "set_height")
          => ((call'.ret = "false") <=> Overflows(width, call'.a))
    /\ (call'.op \in {"set_width", "set_height"} /\ call'.ret = "false")
          => UNCHANGED <<width, height, data>>

InitResize ==
    /\ kind \in {"i32", "char"}
    /\ \E w, h \in 0 .. MaxDim :
          /\ width = w
          /\ height = h
          /\ data \in [1 .. w * h -> Cells(kind)]
          /\ call = Call("new", w, h, "Some")
    /\ ub = FALSE
    /\ orig = NoOrig
    /\ phase = "start"
    /\ NoCodec

ShrinkWidth(w1) ==
    /\ phase = "start"
    /\ w1 <= width
    /\ LET r == set_width(kind, width, height, data, w1) IN
          /\ width' = r.width
          /\ data' = r.data
          /\ call' = Call("set_width", w1, 0, r.ret)
    /\ orig' = [width |-> width, height |-> height, data |-> data,
                w1 |-> w1, h1 |-> height]
    /\ phase' = "shrunk_w"
    /\ UNCHANGED <<kind, height, ub, codec>>

ShrinkHeight(h1) ==
    /\ phase = "shrunk_w"
    /\ h1 <= height
    /\ LET r == set_height(kind, width, height, data, h1) IN
          /\ height' = r.height
          /\ data' = r.data
          /\ call' = Call("set_height", h1, 0, r.ret)
    /\ orig' = [orig EXCEPT !.h1 = h1]
    /\ phase' = "shrunk"
    /\ UNCHANGED <<kind, width, ub, codec>>

GrowWidth ==
    /\ phase = "shrunk"
    /\ LET r == set_width(kind, width, height, data, orig.width) IN
          /\ width' = r.width
          /\ data' = r.data
          /\ call' = Call("set_width", orig.width, 0, r.ret)
          /\ phase' = IF r.ret = "panic" THEN "panicked" ELSE "grown_w"
    /\ UNCHANGED <<kind, height, ub, orig, codec>>

GrowHeight ==
    /\ phase = "grown_w"
    /\ LET r == set_height(kind, width, height, data, orig.height) IN
          /\ height' = r.height
          /\ data' = r.data
          /\ call' = Call("set_height", orig.height, 0, r.ret)
    /\ phase' = "done"
    /\ UNCHANGED <<kind, width, ub, orig, codec>>

NextResize ==
    \/ \E w1 \in 0 .. MaxDim : ShrinkWidth(w1)
    \/ \E h1 \in 0 .. MaxDim : ShrinkHeight(h1)
    \/ GrowWidth
    \/ GrowHeight

SpecResize == InitResize /\ [][NextResize]_vars

(***************************************************************************)
(* C7: shrinking a (w, h) grid to (w1 <= w, h1 <= h) and growing it back   *)
(* to (w, h) yields a (w, h) grid in which get returns the original value  *)
(* of every cell with x < w1 and y < h1 and the empty sentinel elsewhere.  *)
(***************************************************************************)
C7_ShrinkGrow ==
    phase \in {"done", "panicked"}
       => /\ phase = "done"
          /\ width = orig.width
          /\ height = orig.height
          /\ \A x, y \in Coords :
                (x < orig.width /\ y < orig.height)
                   => get(kind, width, height, data, x, y) =
                         {IF x < orig.w1 /\ y < orig.h1
                            THEN CellAt(orig.data, orig.width, x, y)
                            ELSE Some(EMPTY(kind))}


(***************************************************************************)
(* Stream primitives (src/src/ext.rs).  A reader's result is Ok with the   *)
(* value and the position after the bytes it consumed, or Err.             *)
(***************************************************************************)
\* how many bytes of trailing stream and of arbitrary input the model tries
MaxFeed == 3

Ok(v, pos) == [ok |-> TRUE, val |-> v, pos |-> pos]
Err(e) == [ok |-> FALSE, err |-> e]

\* the grid variables, unused by the codec specifications
NoGrid ==
    /\ kind = "i32"
    /\ width = 0
    /\ height = 0
    /\ data = << >>
    /\ call = Call("new", 0, 0, "Some")
    /\ ub = FALSE
    /\ orig = NoOrig

\* v << k on a usize: the bits shifted past the top of the word are dropped
shl(v, k) == (v * 2 ^ k) % (UsizeMax + 1)

\* int >>= 8, a shift by a whole byte instead of a 7-bit group
shr_group_8(int) == int \div 256

\* int >>= 7
shr_group(int) == int \div 128

(***************************************************************************)
(* WriteExt::write_variable_length_int                                     *)
(***************************************************************************)
RECURSIVE write_variable_length_int(_)
write_variable_length_int(int) ==
    LET cont == int > 127
        byte == (IF cont THEN 128 ELSE 0) + ((int % 256) % 128)
    IN  <<byte>> \o (IF cont THEN write_variable_length_int(shr_group(int))
                             ELSE << >>)

(***************************************************************************)
(* ReadExt::read_variable_length_int, reading bytes from position pos.     *)
(* read_u8 at the end of the stream is an UnexpectedEof error.             *)
(***************************************************************************)
RECURSIVE read_vli_loop(_, _, _, _)
read_vli_loop(bytes, pos, res, length) ==
    IF pos > Len(bytes) THEN Err("UnexpectedEof")
    ELSE LET byte == bytes[pos]
             res2 == res + shl(byte % 128, length * 7)
             length2 == length + 1
         IN  IF res2 > UsizeMax THEN Err("add overflow")
             ELSE IF byte \div 128 = 0 THEN Ok(res2, pos + 1)
             ELSE IF length2 * 7 >= UsizeBits THEN Err("InvalidData")
             ELSE read_vli_loop(bytes, pos + 1, res2, length2)

read_variable_length_int(bytes, pos) == read_vli_loop(bytes, pos, 0, 0)

(***************************************************************************)
(* Varint scenarios: a number is written and read back with arbitrary      *)
(* bytes after it, or arbitrary bytes are read.                            *)
(***************************************************************************)
FeedBytes == {0, 1, 2, 127, 128, 129, 130, 255}

RECURSIVE SeqsUpTo(_, _)
SeqsUpTo(S, n) ==
    IF n = 0 THEN {<< >>}
    ELSE SeqsUpTo(S, n - 1) \cup [1 .. n -> S]

InitVarint ==
    /\ NoGrid
    /\ NoCodec
    /\ phase = "vli_start"

WriteVarint(n, suffix) ==
    /\ phase = "vli_start"
    /\ input' = n
    /\ written' = write_variable_length_int(n)
    /\ stream' = write_variable_length_int(n) \o suffix
    /\ phase' = "vli_written"
    /\ UNCHANGED <<grid, result>>

FeedVarint(bytes) ==
    /\ phase = "vli_start"
    /\ stream' = bytes
    /\ phase' = "vli_fed"
    /\ UNCHANGED <<grid, input, written, result>>

ReadVarint ==
    /\ phase \in {"vli_written", "vli_fed"}
    /\ result' = read_variable_length_int(stream, 1)
    /\ phase' = IF phase = "vli_written" THEN "vli_read_back" ELSE "vli_read"
    /\ UNCHANGED <<grid, input, written, stream>>

NextVarint ==
    \/ \E n \in 0 .. UsizeMax : \E suffix \in SeqsUpTo({0, 128}, 1) :
          WriteVarint(n, suffix)
    \/ \E bytes \in SeqsUpTo(FeedBytes, MaxFeed) : FeedVarint(bytes)
    \/ ReadVarint

SpecVarint == InitVarint /\ [][NextVarint]_vars

(***************************************************************************)
(* C8: for every n of the integer width, reading the bytes written for n   *)
(* returns n and consumes exactly those bytes; the bytes are the base-128  *)
(* groups of n, least significant first, with the high bit set on every    *)
(* byte except the last.                                                   *)
(***************************************************************************)
C8_VarintRoundTrip ==
    phase \in {"vli_written", "vli_read_back"}
       => /\ Len(written) >= 1
          /\ \A i \in 1 .. Len(written) :
                /\ written[i] % 128 = (input \div 128 ^ (i - 1)) % 128
                /\ (written[i] >= 128) <=> (i < Len(written))
          /\ input \div 128 ^ Len(written) = 0
          /\ phase = "vli_read_back"
               => /\ result.ok
                  /\ result.val = input
                  /\ result.pos = Len(written) + 1

\* a number that needs a second group has been written and read back
C8_Witness ==
    /\ phase = "vli_read_back"
    /\ input > 127
    /\ Len(written) = 2
    /\ Len(stream) = 3
    /\ result.ok

(***************************************************************************)
(* C9: read_variable_length_int returns an error, never a value, for every *)
(* byte sequence whose 7-bit groups encode a number that needs more bits   *)
(* than the integer width: a returned value is the number the groups       *)
(* spell, no payload bit is dropped.                                       *)
(***************************************************************************)
\* the number spelled by the groups from position pos up to the first byte
\* without a continuation flag
RECURSIVE GroupValue(_, _)
GroupValue(bytes, pos) ==
    IF pos > Len(bytes) THEN 0
    ELSE (bytes[pos] % 128)
           + (IF bytes[pos] >= 128 THEN 128 * GroupValue(bytes, pos + 1) ELSE 0)

C9_NoBitsDropped ==
    (phase = "vli_read" /\ result.ok)
       => /\ GroupValue(stream, 1) <= UsizeMax
          /\ result.val = GroupValue(stream, 1)


(***************************************************************************)
(* Run-length encoded strings.  A Rust String is its UTF-8 bytes.  The     *)
(* widths of the format are scaled: a run length is a u8 whose maximum is  *)
(* RunMax instead of 255, and the pair-byte count is a u16 whose maximum   *)
(* is PrefixMax instead of 65,535 (odd, like 65,535).                      *)
(***************************************************************************)
\* u8::MAX for a run length, scaled down from 255
RunMax == 3
\* u16::MAX for the pair-byte count, scaled down from 65,535
PrefixMax == 7
\* the longest text, in characters
MaxText == 5

\* the characters of the model's texts, as UTF-8: 'a', 'b' and U+00E9
Chars == {<<97>>, <<98>>, <<195, 169>>}

RECURSIVE Texts(_)
Texts(n) ==
    IF n = 0 THEN {<< >>}
    ELSE Texts(n - 1) \cup {t \o c : t \in Texts(n - 1), c \in Chars}

\* String::from_utf8's validation, for one- and two-byte sequences
RECURSIVE utf8_valid(_, _)
utf8_valid(bytes, pos) ==
    IF pos > Len(bytes) THEN TRUE
    ELSE IF bytes[pos] < 128 THEN utf8_valid(bytes, pos + 1)
    ELSE IF /\ bytes[pos] >= 194
            /\ bytes[pos] <= 223
            /\ pos + 1 <= Len(bytes)
            /\ bytes[pos + 1] >= 128
            /\ bytes[pos + 1] <= 191
         THEN utf8_valid(bytes, pos + 2)
    ELSE FALSE

\* write_u16::<LittleEndian>
u16_le(n) == <<n % 256, n \div 256>>

(***************************************************************************)
(* WriteExt::write_rle_string: the loop body over one byte, then the       *)
(* function.  The state is last_byte, last_run and the bytes of buf.       *)
(***************************************************************************)
\* the loop body without the `last_run != u8::MAX` test: the u8 wraps
rle_step_uncapped(st, byte) ==
    IF st.last_byte # None /\ st.last_byte[1] = byte
    THEN [st EXCEPT !.last_run = (@ + 1) % (RunMax + 1)]
    ELSE IF st.last_byte # None
    THEN [last_byte |-> Some(byte), last_run |-> 1,
          buf |-> st.buf \o <<st.last_run, st.last_byte[1]>>]
    ELSE [st EXCEPT !.last_byte = Some(byte)]

\* the loop body closing a run one byte before the u8 is full
rle_step_early_split(st, byte) ==
    IF st.last_byte # None /\ st.last_byte[1] = byte /\ st.last_run # RunMax - 1
    THEN [st EXCEPT !.last_run = @ + 1, !.last_byte = Some(byte)]
    ELSE IF st.last_byte # None
    THEN [last_byte |-> Some(byte), last_run |-> 1,
          buf |-> st.buf \o <<st.last_run, st.last_byte[1]>>]
    ELSE [st EXCEPT !.last_byte = Some(byte)]

rle_step(st, byte) ==
    IF st.last_byte # None /\ st.last_byte[1] = byte /\ st.last_run # RunMax
    THEN [st EXCEPT !.last_run = @ + 1, !.last_byte = Some(byte)]
    ELSE IF st.last_byte # None
    THEN [last_byte |-> Some(byte), last_run |-> 1,
          buf |-> st.buf \o <<st.last_run, st.last_byte[1]>>]
    ELSE [st EXCEPT !.last_byte = Some(byte)]

RECURSIVE rle_loop(_, _, _)
rle_loop(str, i, st) ==
    IF i > Len(str) THEN st ELSE rle_loop(str, i + 1, rle_step(st, str[i]))

rle_buf(str) ==
    LET st == rle_loop(str, 1, [last_byte |-> None, last_run |-> 1, buf |-> << >>])
    IN  IF st.last_byte # None
        THEN st.buf \o <<st.last_run, st.last_byte[1]>>
        ELSE st.buf

\* Ok with the bytes written to the stream, or Err with nothing written
write_rle_string(str) ==
    IF Len(rle_buf(str)) > PrefixMax THEN Err("InvalidData")
    ELSE Ok(u16_le(Len(rle_buf(str))) \o rle_buf(str), 0)

(***************************************************************************)
(* ReadExt::read_rle_string, reading from position pos.                    *)
(***************************************************************************)
RECURSIVE read_rle_pairs(_, _, _, _)
read_rle_pairs(bytes, pos, n, acc) ==
    IF n = 0 THEN Ok(acc, pos)
    ELSE IF pos + 1 > Len(bytes) THEN Err("UnexpectedEof")
    ELSE read_rle_pairs(bytes, pos + 2, n - 1,
                        acc \o repeat_take(bytes[pos + 1], bytes[pos]))

read_rle_string(bytes, pos) ==
    IF pos + 1 > Len(bytes) THEN Err("UnexpectedEof")
    ELSE LET size == bytes[pos] + 256 * bytes[pos + 1]
             r == read_rle_pairs(bytes, pos + 2, size \div 2, << >>)
         IN  IF ~r.ok THEN r
             ELSE IF ~utf8_valid(r.val, 1) THEN Err("InvalidData")
             ELSE r

(***************************************************************************)
(* RLE scenario: a text is written, and what was written is read.          *)
(***************************************************************************)
InitRle ==
    /\ NoGrid
    /\ NoCodec
    /\ phase = "rle_start"

WriteRle(str) ==
    /\ phase = "rle_start"
    /\ input' = str
    /\ LET r == write_rle_string(str) IN
          /\ written' = IF r.ok THEN r.val ELSE << >>
          /\ stream' = IF r.ok THEN r.val ELSE << >>
          /\ result' = IF r.ok THEN << >> ELSE r
          /\ phase' = IF r.ok THEN "rle_written" ELSE "rle_write_err"
    /\ UNCHANGED grid

ReadRle ==
    /\ phase \in {"rle_written", "rle_write_err"}
    /\ result' = read_rle_string(stream, 1)
    /\ phase' = IF phase = "rle_written" THEN "rle_read" ELSE "rle_read_nothing"
    /\ UNCHANGED <<grid, input, written, stream>>

NextRle ==
    \/ \E str \in Texts(MaxText) : WriteRle(str)
    \/ ReadRle

SpecRle == InitRle /\ [][NextRle]_vars

(***************************************************************************)
(* C10 as stated: for all text s, of every length, read_rle_string applied *)
(* to the bytes written by write_rle_string(s) returns s.                  *)
(***************************************************************************)
C10_RleRoundTripAll ==
    phase \in {"rle_read", "rle_read_nothing"}
       => (result.ok /\ result.val = input)

\* the (run length, byte) pairs a text needs: each maximal run of n equal
\* bytes takes ceil(n / RunMax) pairs
RECURSIVE RunEnd(_, _)
RunEnd(str, i) ==
    IF i < Len(str) /\ str[i + 1] = str[i] THEN RunEnd(str, i + 1) ELSE i

RECURSIVE PairsNeeded(_, _)
PairsNeeded(str, i) ==
    IF i > Len(str) THEN 0
    ELSE ((RunEnd(str, i) - i + 1) + RunMax - 1) \div RunMax
           + PairsNeeded(str, RunEnd(str, i) + 1)

\* the pairs that follow the two-byte count, expanded in order
RECURSIVE Expanded(_, _)
Expanded(bytes, pos) ==
    IF pos + 1 > Len(bytes) THEN << >>
    ELSE [i \in 1 .. bytes[pos] |-> bytes[pos + 1]] \o Expanded(bytes, pos + 2)

(***************************************************************************)
(* C23: what write_rle_string writes is a two-byte little-endian count of  *)
(* the pair bytes, then (run length, byte) pairs: every run length is      *)
(* between 1 and the u8 maximum, the pairs expand in order to exactly the  *)
(* input bytes, and two adjacent pairs carry the same byte only when the   *)
(* first has the maximal run length; a run one longer than the maximum is  *)
(* written as the two pairs (max, b), (1, b).                              *)
(***************************************************************************)
C23_RlePairs ==
    phase = "rle_written"
       => /\ Len(written) >= 2
          /\ (Len(written) - 2) % 2 = 0
          /\ written[1] + 256 * written[2] = Len(written) - 2
          /\ written[1] < 256 /\ written[2] < 256
          /\ \A p \in 1 .. (Len(written) - 2) \div 2 :
                /\ written[2 * p + 1] \in 1 .. RunMax
                /\ (p > 1 /\ written[2 * p + 2] = written[2 * p])
                      => written[2 * p - 1] = RunMax
          /\ Expanded(written, 3) = input
          /\ (Len(input) = RunMax + 1 /\ \A i \in 1 .. Len(input) : input[i] = input[1])
                => written = <<4, 0, RunMax, input[1], 1, input[1]>>

\* a run one longer than the u8 maximum has been written, as two pairs
C23_Witness ==
    /\ phase = "rle_written"
    /\ Len(input) = RunMax + 1
    /\ \A i \in 1 .. Len(input) : input[i] = input[1]
    /\ Len(written) = 6
    /\ written[3] = RunMax /\ written[5] = 1 /\ written[4] = written[6]

(***************************************************************************)
(* C10 amended: for every text s whose pairs take at most u16::MAX bytes,  *)
(* reading what write_rle_string(s) wrote returns s (the empty text and    *)
(* runs longer than the u8 maximum included); for any other text           *)
(* write_rle_string fails with an error and writes nothing.                *)
(***************************************************************************)
C10_RleRoundTripFits ==
    /\ phase \in {"rle_written", "rle_read"}
          => 2 * PairsNeeded(input, 1) <= PrefixMax
    /\ phase = "rle_read" => (result.ok /\ result.val = input)
    /\ phase \in {"rle_write_err", "rle_read_nothing"}
          => (2 * PairsNeeded(input, 1) > PrefixMax /\ written = << >>)

\* a text with a run longer than the u8 maximum has been written and read back
C10_Witness ==
    /\ phase = "rle_read"
    /\ Len(input) > RunMax
    /\ \A i \in 1 .. RunMax + 1 : input[i] = input[1]
    /\ result.ok

(***************************************************************************)
(* The typed map layer.  A text (the payload of a string value, a package, *)
(* a tilemap's innerText) is its UTF-8 bytes and a char its code point;    *)
(* the name of an element and the key of an attribute are string literals, *)
(* turned into their bytes where they are written and back where they are  *)
(* read.  The model's texts are ASCII without carriage returns.            *)
(***************************************************************************)
\* the UTF-8 bytes of a string literal of the source or of the model's
\* documents
S(lit) ==
    CASE lit = "Map" -> <<77, 97, 112>>
      [] lit = "_package" -> <<95, 112, 97, 99, 107, 97, 103, 101>>
      [] lit = "Filler" -> <<70, 105, 108, 108, 101, 114>>
      [] lit = "Style" -> <<83, 116, 121, 108, 101>>
      [] lit = "color" -> <<99, 111, 108, 111, 114>>
      [] lit = "Foregrounds" -> <<70, 111, 114, 101, 103, 114, 111, 117, 110, 100, 115>>
      [] lit = "Backgrounds" -> <<66, 97, 99, 107, 103, 114, 111, 117, 110, 100, 115>>
      [] lit = "levels" -> <<108, 101, 118, 101, 108, 115>>
      [] lit = "level" -> <<108, 101, 118, 101, 108>>
      [] lit = "rect" -> <<114, 101, 99, 116>>
      [] lit = "x" -> <<120>>
      [] lit = "y" -> <<121>>
      [] lit = "w" -> <<119>>
      [] lit = "h" -> <<104>>
      [] lit = "decal" -> <<100, 101, 99, 97, 108>>
      [] lit = "scaleX" -> <<115, 99, 97, 108, 101, 88>>
      [] lit = "scaleY" -> <<115, 99, 97, 108, 101, 89>>
      [] lit = "texture" -> <<116, 101, 120, 116, 117, 114, 101>>
      [] lit = "depth" -> <<100, 101, 112, 116, 104>>
      [] lit = "rotation" -> <<114, 111, 116, 97, 116, 105, 111, 110>>
      [] lit = "musicProgress" -> <<109, 117, 115, 105, 99, 80, 114, 111, 103, 114, 101, 115, 115>>
      [] lit = "ambienceProgress" -> <<97, 109, 98, 105, 101, 110, 99, 101, 80, 114, 111, 103, 114, 101, 115, 115>>
      [] lit = "width" -> <<119, 105, 100, 116, 104>>
      [] lit = "height" -> <<104, 101, 105, 103, 104, 116>>
      [] lit = "musicLayer1" -> <<109, 117, 115, 105, 99, 76, 97, 121, 101, 114, 49>>
      [] lit = "musicLayer2" -> <<109, 117, 115, 105, 99, 76, 97, 121, 101, 114, 50>>
      [] lit = "musicLayer3" -> <<109, 117, 115, 105, 99, 76, 97, 121, 101, 114, 51>>
      [] lit = "musicLayer4" -> <<109, 117, 115, 105, 99, 76, 97, 121, 101, 114, 52>>
      [] lit = "underwater" -> <<117, 110, 100, 101, 114, 119, 97, 116, 101, 114>>
      [] lit = "space" -> <<115, 112, 97, 99, 101>>
      [] lit = "disableDownTransition" -> <<100, 105, 115, 97, 98, 108, 101, 68, 111, 119, 110, 84, 114, 97, 110, 115, 105, 116, 105, 111, 110>>
      [] lit = "cameraOffsetX" -> <<99, 97, 109, 101, 114, 97, 79, 102, 102, 115, 101, 116, 88>>
      [] lit = "cameraOffsetY" -> <<99, 97, 109, 101, 114, 97, 79, 102, 102, 115, 101, 116, 89>>
      [] lit = "windPattern" -> <<119, 105, 110, 100, 80, 97, 116, 116, 101, 114, 110>>
      [] lit = "alt_music" -> <<97, 108, 116, 95, 109, 117, 115, 105, 99>>
      [] lit = "ambience" -> <<97, 109, 98, 105, 101, 110, 99, 101>>
      [] lit = "delayAltMusicFade" -> <<100, 101, 108, 97, 121, 65, 108, 116, 77, 117, 115, 105, 99, 70, 97, 100, 101>>
      [] lit = "music" -> <<109, 117, 115, 105, 99>>
      [] lit = "c" -> <<99>>
      [] lit = "dark" -> <<100, 97, 114, 107>>
      [] lit = "enforceDashNumber" -> <<101, 110, 102, 111, 114, 99, 101, 68, 97, 115, 104, 78, 117, 109, 98, 101, 114>>
      [] lit = "whisper" -> <<119, 104, 105, 115, 112, 101, 114>>
      [] lit = "name" -> <<110, 97, 109, 101>>
      [] lit = "entities" -> <<101, 110, 116, 105, 116, 105, 101, 115>>
      [] lit = "triggers" -> <<116, 114, 105, 103, 103, 101, 114, 115>>
      [] lit = "bgdecals" -> <<98, 103, 100, 101, 99, 97, 108, 115>>
      [] lit = "fgdecals" -> <<102, 103, 100, 101, 99, 97, 108, 115>>
      [] lit = "bg" -> <<98, 103>>
      [] lit = "bgtiles" -> <<98, 103, 116, 105, 108, 101, 115>>
      [] lit = "fgtiles" -> <<102, 103, 116, 105, 108, 101, 115>>
      [] lit = "objtiles" -> <<111, 98, 106, 116, 105, 108, 101, 115>>
      [] lit = "solids" -> <<115, 111, 108, 105, 100, 115>>
      [] lit = "innerText" -> <<105, 110, 110, 101, 114, 84, 101, 120, 116>>
      [] lit = "node" -> <<110, 111, 100, 101>>
      [] lit = "id" -> <<105, 100>>
      [] lit = "originX" -> <<111, 114, 105, 103, 105, 110, 88>>
      [] lit = "originY" -> <<111, 114, 105, 103, 105, 110, 89>>
      [] lit = "<unnamed>" -> <<60, 117, 110, 110, 97, 109, 101, 100, 62>>
      [] lit = "None" -> <<78, 111, 110, 101>>
      [] lit = "ffffff" -> <<102, 102, 102, 102, 102, 102>>
      [] lit = "CELESTE MAP" -> <<67, 69, 76, 69, 83, 84, 69, 32, 77, 65, 80>>
      [] lit = "" -> <<>>
      [] lit = "pkg" -> <<112, 107, 103>>
      [] lit = "lvl_a" -> <<108, 118, 108, 95, 97>>
      [] lit = "extra" -> <<101, 120, 116, 114, 97>>
      [] lit = "meta" -> <<109, 101, 116, 97>>
      [] lit = "spinner" -> <<115, 112, 105, 110, 110, 101, 114>>
      [] lit = "parallax" -> <<112, 97, 114, 97, 108, 108, 97, 120>>
      [] lit = "a" -> <<97>>
      [] lit = "0a" -> <<48, 97>>
      [] lit = "5" -> <<53>>
      [] lit = "-1,5" -> <<45, 49, 44, 53>>
      [] lit = "zz" -> <<122, 122>>
      [] lit = "ff0000" -> <<102, 102, 48, 48, 48, 48>>
      [] lit = "336699cc" -> <<51, 51, 54, 54, 57, 57, 99, 99>>

\* the string literal whose UTF-8 bytes are given (String::from_utf8 on a name)
name_of(bytes) ==
    CASE bytes = <<77, 97, 112>> -> "Map"
      [] bytes = <<95, 112, 97, 99, 107, 97, 103, 101>> -> "_package"
      [] bytes = <<70, 105, 108, 108, 101, 114>> -> "Filler"
      [] bytes = <<83, 116, 121, 108, 101>> -> "Style"
      [] bytes = <<99, 111, 108, 111, 114>> -> "color"
      [] bytes = <<70, 111, 114, 101, 103, 114, 111, 117, 110, 100, 115>> -> "Foregrounds"
      [] bytes = <<66, 97, 99, 107, 103, 114, 111, 117, 110, 100, 115>> -> "Backgrounds"
      [] bytes = <<108, 101, 118, 101, 108, 115>> -> "levels"
      [] bytes = <<108, 101, 118, 101, 108>> -> "level"
      [] bytes = <<114, 101, 99, 116>> -> "rect"
      [] bytes = <<120>> -> "x"
      [] bytes = <<121>> -> "y"
      [] bytes = <<119>> -> "w"
      [] bytes = <<104>> -> "h"
      [] bytes = <<100, 101, 99, 97, 108>> -> "decal"
      [] bytes = <<115, 99, 97, 108, 101, 88>> -> "scaleX"
      [] bytes = <<115, 99, 97, 108, 101, 89>> -> "scaleY"
      [] bytes = <<116, 101, 120, 116, 117, 114, 101>> -> "texture"
      [] bytes = <<100, 101, 112, 116, 104>> -> "depth"
      [] bytes = <<114, 111, 116, 97, 116, 105, 111, 110>> -> "rotation"
      [] bytes = <<109, 117, 115, 105, 99, 80, 114, 111, 103, 114, 101, 115, 115>> -> "musicProgress"
      [] bytes = <<97, 109, 98, 105, 101, 110, 99, 101, 80, 114, 111, 103, 114, 101, 115, 115>> -> "ambienceProgress"
      [] bytes = <<119, 105, 100, 116, 104>> -> "width"
      [] bytes = <<104, 101, 105, 103, 104, 116>> -> "height"
      [] bytes = <<109, 117, 115, 105, 99, 76, 97, 121, 101, 114, 49>> -> "musicLayer1"
      [] bytes = <<109, 117, 115, 105, 99, 76, 97, 121, 101, 114, 50>> -> "musicLayer2"
      [] bytes = <<109, 117, 115, 105, 99, 76, 97, 121, 101, 114, 51>> -> "musicLayer3"
      [] bytes = <<109, 117, 115, 105, 99, 76, 97, 121, 101, 114, 52>> -> "musicLayer4"
      [] bytes = <<117, 110, 100, 101, 114, 119, 97, 116, 101, 114>> -> "underwater"
      [] bytes = <<115, 112, 97, 99, 101>> -> "space"
      [] bytes = <<100, 105, 115, 97, 98, 108, 101, 68, 111, 119, 110, 84, 114, 97, 110, 115, 105, 116, 105, 111, 110>> -> "disableDownTransition"
      [] bytes = <<99, 97, 109, 101, 114, 97, 79, 102, 102, 115, 101, 116, 88>> -> "cameraOffsetX"
      [] bytes = <<99, 97, 109, 101, 114, 97, 79, 102, 102, 115, 101, 116, 89>> -> "cameraOffsetY"
      [] bytes = <<119, 105, 110, 100, 80, 97, 116, 116, 101, 114, 110>> -> "windPattern"
      [] bytes = <<97, 108, 116, 95, 109, 117, 115, 105, 99>> -> "alt_music"
      [] bytes = <<97, 109, 98, 105, 101, 110, 99, 101>> -> "ambience"
      [] bytes = <<100, 101, 108, 97, 121, 65, 108, 116, 77, 117, 115, 105, 99, 70, 97, 100, 101>> -> "delayAltMusicFade"
      [] bytes = <<109, 117, 115, 105, 99>> -> "music"
      [] bytes = <<99>> -> "c"
      [] bytes = <<100, 97, 114, 107>> -> "dark"
      [] bytes = <<101, 110, 102, 111, 114, 99, 101, 68, 97, 115, 104, 78, 117, 109, 98, 101, 114>> -> "enforceDashNumber"
      [] bytes = <<119, 104, 105, 115, 112, 101, 114>> -> "whisper"
      [] bytes = <<110, 97, 109, 101>> -> "name"
      [] bytes = <<101, 110, 116, 105, 116, 105, 101, 115>> -> "entities"
      [] bytes = <<116, 114, 105, 103, 103, 101, 114, 115>> -> "triggers"
      [] bytes = <<98, 103, 100, 101, 99, 97, 108, 115>> -> "bgdecals"
      [] bytes = <<102, 103, 100, 101, 99, 97, 108, 115>> -> "fgdecals"
      [] bytes = <<98, 103>> -> "bg"
      [] bytes = <<98, 103, 116, 105, 108, 101, 115>> -> "bgtiles"
      [] bytes = <<102, 103, 116, 105, 108, 101, 115>> -> "fgtiles"
      [] bytes = <<111, 98, 106, 116, 105, 108, 101, 115>> -> "objtiles"
      [] bytes = <<115, 111, 108, 105, 100, 115>> -> "solids"
      [] bytes = <<105, 110, 110, 101, 114, 84, 101, 120, 116>> -> "innerText"
      [] bytes = <<110, 111, 100, 101>> -> "node"
      [] bytes = <<105, 100>> -> "id"
      [] bytes = <<111, 114, 105, 103, 105, 110, 88>> -> "originX"
      [] bytes = <<111, 114, 105, 103, 105, 110, 89>> -> "originY"
      [] bytes = <<60, 117, 110, 110, 97, 109, 101, 100, 62>> -> "<unnamed>"
      [] bytes = <<78, 111, 110, 101>> -> "None"
      [] bytes = <<102, 102, 102, 102, 102, 102>> -> "ffffff"
      [] bytes = <<67, 69, 76, 69, 83, 84, 69, 32, 77, 65, 80>> -> "CELESTE MAP"
      [] bytes = <<>> -> ""
      [] bytes = <<112, 107, 103>> -> "pkg"
      [] bytes = <<108, 118, 108, 95, 97>> -> "lvl_a"
      [] bytes = <<101, 120, 116, 114, 97>> -> "extra"
      [] bytes = <<109, 101, 116, 97>> -> "meta"
      [] bytes = <<115, 112, 105, 110, 110, 101, 114>> -> "spinner"
      [] bytes = <<112, 97, 114, 97, 108, 108, 97, 120>> -> "parallax"
      [] bytes = <<97>> -> "a"
      [] bytes = <<48, 97>> -> "0a"
      [] bytes = <<53>> -> "5"
      [] bytes = <<45, 49, 44, 53>> -> "-1,5"
      [] bytes = <<122, 122>> -> "zz"
      [] bytes = <<102, 102, 48, 48, 48, 48>> -> "ff0000"
      [] bytes = <<51, 51, 54, 54, 57, 57, 99, 99>> -> "336699cc"

\* i32::MAX
I32Max == 2147483647
\* i32::MIN
I32Min == -2147483647 - 1

Max(a, b) == IF a > b THEN a ELSE b

\* Option::unwrap_or
unwrap_or(opt, default) == IF opt = None THEN default ELSE opt[1]

\* the concatenation of the strings of a sequence, with sep between them
\* (slice::join, Itertools::join)
RECURSIVE join(_, _)
join(parts, sep) ==
    IF parts = << >> THEN << >>
    ELSE IF Len(parts) = 1 THEN parts[1]
    ELSE parts[1] \o sep \o join(Tail(parts), sep)

\* the position of the first byte b of s at or after position i, or
\* Len(s) + 1 when there is none
RECURSIVE find_byte(_, _, _)
find_byte(s, i, b) ==
    IF i > Len(s) THEN i
    ELSE IF s[i] = b THEN i
    ELSE find_byte(s, i + 1, b)

\* a line without the '\r' (13) that ends it before its '\n'
strip_cr(raw, terminated) ==
    IF terminated /\ raw # << >> /\ raw[Len(raw)] = 13
    THEN SubSeq(raw, 1, Len(raw) - 1) ELSE raw

\* str::lines: split at each '\n' (10), which is at position e of s; no
\* line is produced for the empty rest after a final '\n'
RECURSIVE lines(_)
RECURSIVE lines_at(_, _)
lines_at(s, e) ==
    <<strip_cr(SubSeq(s, 1, e - 1), e <= Len(s))>>
       \o lines(SubSeq(s, e + 1, Len(s)))

lines(s) == IF s = << >> THEN << >> ELSE lines_at(s, find_byte(s, 1, 10))

\* str::split(','): the pieces between the commas (44), at least one; the
\* first comma is at position e of s
RECURSIVE split_comma(_)
RECURSIVE split_at(_, _)
split_at(s, e) ==
    IF e > Len(s) THEN <<s>>
    ELSE <<SubSeq(s, 1, e - 1)>> \o split_comma(SubSeq(s, e + 1, Len(s)))

split_comma(s) == split_at(s, find_byte(s, 1, 44))

\* char::is_whitespace, for ASCII
is_whitespace(b) == b \in {9, 10, 11, 12, 13, 32}

\* str::trim
RECURSIVE trim_start(_)
trim_start(s) ==
    IF s # << >> /\ is_whitespace(s[1]) THEN trim_start(Tail(s)) ELSE s

RECURSIVE trim_end(_)
trim_end(s) ==
    IF s # << >> /\ is_whitespace(s[Len(s)])
    THEN trim_end(SubSeq(s, 1, Len(s) - 1)) ELSE s

trim(s) == trim_end(trim_start(s))

\* str::chars, for one- and two-byte sequences
RECURSIVE chars(_)
chars(s) ==
    IF s = << >> THEN << >>
    ELSE IF s[1] < 128 \/ Len(s) = 1 THEN <<s[1]>> \o chars(Tail(s))
    ELSE <<(s[1] - 192) * 64 + (s[2] - 128)>> \o chars(SubSeq(s, 3, Len(s)))

\* String::push(char): the UTF-8 bytes of a code point below U+0800
utf8(c) == IF c < 128 THEN <<c>> ELSE <<192 + (c \div 64), 128 + (c % 64)>>

(***************************************************************************)
(* i32::from_str (str::parse::<i32>) and i32::to_string.                   *)
(***************************************************************************)
is_digit(b) == b >= 48 /\ b <= 57

\* the digits of s from position i, accumulated as the code does: added to
\* a non-negative number, subtracted from a negative one, None on overflow
\* or on a byte that is no digit
RECURSIVE parse_digits(_, _, _, _)
parse_digits(s, i, acc, negative) ==
    IF i > Len(s) THEN Some(acc)
    ELSE IF ~is_digit(s[i]) THEN None
    ELSE IF negative
    THEN IF acc < -214748364 \/ (acc = -214748364 /\ s[i] - 48 > 8) THEN None
         ELSE parse_digits(s, i + 1, acc * 10 - (s[i] - 48), negative)
    ELSE IF acc > 214748364 \/ (acc = 214748364 /\ s[i] - 48 > 7) THEN None
         ELSE parse_digits(s, i + 1, acc * 10 + (s[i] - 48), negative)

\* Some(n), or None when s is no decimal i32 (empty, a lone sign, a byte
\* that is no digit, out of range)
parse_i32(s) ==
    IF s = << >> THEN None
    ELSE IF s[1] \in {43, 45}
    THEN IF Len(s) = 1 THEN None ELSE parse_digits(s, 2, 0, s[1] = 45)
    ELSE parse_digits(s, 1, 0, FALSE)

\* the decimal digits of n >= 0
RECURSIVE digits_of(_)
digits_of(n) ==
    IF n < 10 THEN <<48 + n>> ELSE digits_of(n \div 10) \o <<48 + (n % 10)>>

\* i32::to_string
to_string(n) ==
    IF n >= 0 THEN digits_of(n)
    ELSE IF n = I32Min THEN <<45>> \o digits_of(214748364) \o <<56>>
    ELSE <<45>> \o digits_of(-n)

(***************************************************************************)
(* Tilemap text (src/src/tilemap.rs).  A grid is a record of width, height *)
(* and data.                                                               *)
(***************************************************************************)
Grid(w, h, d) == [width |-> w, height |-> h, data |-> d]

\* the w * h cells after the nested loops of load: the cell at (x, y) is
\* item x of line y when both exist, else it stays EMPTY
load_cells(k, items, w, h) ==
    [i \in 1 .. w * h |->
        IF (i - 1) \div w < Len(items) /\ (i - 1) % w < Len(items[(i - 1) \div w + 1])
        THEN items[((i - 1) \div w) + 1][((i - 1) % w) + 1] ELSE EMPTY(k)]

\* line.chars() of each line
char_items(ls) == [y \in 1 .. Len(ls) |-> chars(ls[y])]

\* Tilemap::<char>::load: None when Tilemap::new fails
load_char(s, w, h) ==
    IF new_data("char", w, h) = None THEN None
    ELSE Some(Grid(w, h, load_cells("char", char_items(lines(s)), w, h)))

\* v.trim().parse() .. unwrap_or(-1)
parse_id(v) == unwrap_or(parse_i32(trim(v)), -1)

\* line.split(',').map(..) of a line, given its pieces
id_items(vs) == [x \in 1 .. Len(vs) |-> parse_id(vs[x])]

\* the ids of each line
i32_items(ls) == [y \in 1 .. Len(ls) |-> id_items(split_comma(ls[y]))]

\* Tilemap::<i32>::load
load_i32(s, w, h) ==
    IF new_data("i32", w, h) = None THEN None
    ELSE Some(Grid(w, h, load_cells("i32", i32_items(lines(s)), w, h)))

\* the cells of a row up to its last cell that is not EMPTY: a run of
\* empty cells is only written out when another cell follows it
row_kept(k, row) ==
    IF \A i \in 1 .. Len(row) : row[i] = EMPTY(k) THEN << >>
    ELSE SubSeq(row, 1, CHOOSE i \in 1 .. Len(row) :
                           /\ row[i] # EMPTY(k)
                           /\ \A j \in (i + 1) .. Len(row) : row[j] = EMPTY(k))

\* slice::chunks_exact(width), for width > 0 (width = 0 panics)
chunks_exact(d, w) ==
    [r \in 1 .. Len(d) \div w |-> SubSeq(d, (r - 1) * w + 1, r * w)]

\* isize::MAX
IsizeMax == HalfWord - 1

\* size_of::<usize>()
WordBytes == Max(1, UsizeBits \div 8)

\* Vec::with_capacity(n), String::with_capacity(n) and collect() of n items
\* of `size` bytes each panic with "capacity overflow" past isize::MAX bytes
capacity_overflow(n, size) == n > IsizeMax \div size

\* the kept cells of each chunk
kept_rows(k, cs) == [r \in 1 .. Len(cs) |-> row_kept(k, cs[r])]

\* buf after the pushes of a row's chars
char_row(row) == flatten([i \in 1 .. Len(row) |-> utf8(row[i])])

\* rows.join("\n") of the char rows
char_text(rs) == join([r \in 1 .. Len(rs) |-> char_row(rs[r])], <<10>>)

\* line_buf mapped to_string and joined with ","
i32_row(row) == join([i \in 1 .. Len(row) |-> to_string(row[i])], <<44>>)

\* rows joined with "\n"
i32_text(rs) == join([r \in 1 .. Len(rs) |-> i32_row(rs[r])], <<10>>)

\* the panic of Tilemap::store, None when it returns: the capacity of rows
\* (a Vec<String>), chunks_exact(0), the capacity of a row's buffer of
\* `size`-byte items
store_panic(t, size) ==
    IF capacity_overflow(t.height, 3 * WordBytes) THEN Some("capacity overflow")
    ELSE IF t.width = 0 THEN Some("chunk size must be non-zero")
    ELSE IF Len(t.data) >= t.width /\ capacity_overflow(t.width, size)
    THEN Some("capacity overflow")
    ELSE None

\* Tilemap::<char>::store: Ok with the text, or Err with the panic
store_char(t) ==
    IF store_panic(t, 1) # None THEN Err(store_panic(t, 1)[1])
    ELSE Ok(char_text(kept_rows("char", chunks_exact(t.data, t.width))), 0)

\* Tilemap::<i32>::store
store_i32(t) ==
    IF store_panic(t, 4) # None THEN Err(store_panic(t, 4)[1])
    ELSE Ok(i32_text(kept_rows("i32", chunks_exact(t.data, t.width))), 0)
(***************************************************************************)
(* Values and elements (src/src/element.rs).  A Value is a record of its   *)
(* variant and payload; an f32 is its sign, biased exponent and mantissa;  *)
(* a HashMap is a function on its set of keys; an Element is a record of   *)
(* name, attributes and children.                                          *)
(***************************************************************************)
Boolean(b) == [tag |-> "Boolean", val |-> b]
Integer(n) == [tag |-> "Integer", val |-> n]
Float(f) == [tag |-> "Float", val |-> f]
String(s) == [tag |-> "String", val |-> s]
RleString(s) == [tag |-> "RleString", val |-> s]

Element(name, attributes, children) ==
    [name |-> name, attributes |-> attributes, children |-> children]

\* a LoadError, an io::Error, or a panic, with the field or call it names
LoadError(k, field) == Err([kind |-> k, field |-> field])

\* the `?` on an io::Result inside a function that returns LoadError
io(r) == IF r.ok THEN r ELSE LoadError("Io", r.err)

f32(sign, exp, mant) == [sign |-> sign, exp |-> exp, mant |-> mant]

\* 0.0_f32
F0 == f32(0, 0, 0)
\* 1.0_f32
F1 == f32(0, 127, 0)

\* the position of the highest set bit of a > 0
RECURSIVE ilog2(_)
ilog2(a) == IF a < 2 THEN 0 ELSE 1 + ilog2(a \div 2)

\* the f32 of exponent e whose 24-bit significand is q, or the next power
\* of two when rounding has carried into a 25th bit
f32_carry(sign, e, q) ==
    IF q = 16777216 THEN f32(sign, 127 + e + 1, 0)
    ELSE f32(sign, 127 + e, q - 8388608)

\* round to nearest, ties to even: q is the significand, r the bits cut off
f32_round(sign, e, q, r, half) ==
    f32_carry(sign, e, IF r > half \/ (r = half /\ q % 2 = 1) THEN q + 1 ELSE q)

\* `res as f32` on the magnitude a > 0 of an i32 whose highest bit is bit
\* e: exact below 2^24, rounded above
f32_of(sign, a, e) ==
    IF e <= 23 THEN f32(sign, 127 + e, (a - 2 ^ e) * 2 ^ (23 - e))
    ELSE f32_round(sign, e, a \div 2 ^ (e - 23), a % 2 ^ (e - 23), 2 ^ (e - 24))

\* `res as f32` for an i32
i32_as_f32(n) ==
    IF n = 0 THEN F0
    ELSE IF n = I32Min THEN f32(1, 158, 0)
    ELSE IF n < 0 THEN f32_of(1, -n, ilog2(-n))
    ELSE f32_of(0, n, ilog2(n))

\* `res as i32` for an f32: truncation toward zero, saturating, NaN to 0
f32_as_i32(f) ==
    IF f.exp = 255 /\ f.mant # 0 THEN 0
    ELSE IF f.exp < 127 THEN 0
    ELSE IF f.exp >= 158 THEN (IF f.sign = 1 THEN I32Min ELSE I32Max)
    ELSE IF f.exp >= 150
    THEN (1 - 2 * f.sign) * ((8388608 + f.mant) * 2 ^ (f.exp - 150))
    ELSE (1 - 2 * f.sign) * ((8388608 + f.mant) \div 2 ^ (150 - f.exp))

\* f != 0.0: both zeros are equal to 0.0, a NaN is not
f32_ne_zero(f) == ~(f.exp = 0 /\ f.mant = 0)

\* write_f32::<LittleEndian>
f32_le(f) ==
    <<f.mant % 256, (f.mant \div 256) % 256,
      (f.exp % 2) * 128 + (f.mant \div 65536), f.sign * 128 + (f.exp \div 2)>>

\* write_i16::<LittleEndian>, for -32768 <= n <= 32767
i16_le(n) ==
    IF n >= 0 THEN <<n % 256, n \div 256>>
    ELSE <<255 - ((-(n + 1)) % 256), 255 - ((-(n + 1)) \div 256)>>

\* the four bytes of 0 <= m < 2^31, low byte first
u31_le(m) == <<m % 256, (m \div 256) % 256, (m \div 65536) % 256, m \div 16777216>>

\* write_i32::<LittleEndian>: two's complement
i32_le(n) ==
    IF n >= 0 THEN u31_le(n)
    ELSE [i \in 1 .. 4 |-> 255 - u31_le(-(n + 1))[i]]

(***************************************************************************)
(* Readers: each takes the bytes and a position, and returns Ok with the   *)
(* value and the next position, or Err.                                    *)
(***************************************************************************)
read_u8(bytes, pos) ==
    IF pos > Len(bytes) THEN Err("UnexpectedEof") ELSE Ok(bytes[pos], pos + 1)

\* read_u16::<LittleEndian>
read_u16(bytes, pos) ==
    IF pos + 1 > Len(bytes) THEN Err("UnexpectedEof")
    ELSE Ok(bytes[pos] + 256 * bytes[pos + 1], pos + 2)

\* read_i16::<LittleEndian>
read_i16(bytes, pos) ==
    IF pos + 1 > Len(bytes) THEN Err("UnexpectedEof")
    ELSE IF bytes[pos + 1] >= 128
    THEN Ok(bytes[pos] + 256 * bytes[pos + 1] - 65536, pos + 2)
    ELSE Ok(bytes[pos] + 256 * bytes[pos + 1], pos + 2)

\* read_i32::<LittleEndian>
read_i32(bytes, pos) ==
    IF pos + 3 > Len(bytes) THEN Err("UnexpectedEof")
    ELSE IF bytes[pos + 3] < 128
    THEN Ok(bytes[pos] + 256 * bytes[pos + 1] + 65536 * bytes[pos + 2]
            + 16777216 * bytes[pos + 3], pos + 4)
    ELSE Ok(-((255 - bytes[pos]) + 256 * (255 - bytes[pos + 1])
              + 65536 * (255 - bytes[pos + 2])
              + 16777216 * (255 - bytes[pos + 3])) - 1, pos + 4)

\* read_f32::<LittleEndian>
read_f32(bytes, pos) ==
    IF pos + 3 > Len(bytes) THEN Err("UnexpectedEof")
    ELSE Ok(f32(bytes[pos + 3] \div 128,
                (bytes[pos + 3] % 128) * 2 + (bytes[pos + 2] \div 128),
                (bytes[pos + 2] % 128) * 65536 + bytes[pos + 1] * 256 + bytes[pos]),
            pos + 4)

\* read_exact of the length that was read, then String::from_utf8
read_string_buf(bytes, length) ==
    IF ~length.ok THEN length
    ELSE IF length.pos + length.val - 1 > Len(bytes) THEN Err("UnexpectedEof")
    ELSE IF ~utf8_valid(SubSeq(bytes, length.pos, length.pos + length.val - 1), 1)
    THEN Err("InvalidData")
    ELSE Ok(SubSeq(bytes, length.pos, length.pos + length.val - 1),
            length.pos + length.val)

\* ReadExt::read_string
read_string(bytes, pos) ==
    read_string_buf(bytes, read_variable_length_int(bytes, pos))

\* WriteExt::write_string
write_string(str) == write_variable_length_int(Len(str)) \o str

\* arr.get(index) of the index that was read
lookup_get(arr, index) ==
    IF ~index.ok THEN io(index)
    ELSE IF index.val >= Len(arr) THEN LoadError("InvalidString", index.val)
    ELSE Ok(arr[index.val + 1], index.pos)

\* ReadExt::lookup_string
lookup_string(bytes, pos, arr) == lookup_get(arr, read_u16(bytes, pos))

(***************************************************************************)
(* Value::decode                                                           *)
(***************************************************************************)
\* the Value of variant tag around what a reader returned
decoded(tag, r) ==
    IF r.ok THEN Ok([tag |-> tag, val |-> r.val], r.pos) ELSE r

\* stream.read_u8()? > 0
nonzero(r) == IF r.ok THEN Ok(r.val > 0, r.pos) ELSE r

\* the match on the type byte that was read
decode_tagged(bytes, lookup, tag) ==
    IF ~tag.ok THEN tag
    ELSE CASE tag.val = 0 -> decoded("Boolean", nonzero(io(read_u8(bytes, tag.pos))))
           [] tag.val = 1 -> decoded("Integer", io(read_u8(bytes, tag.pos)))
           [] tag.val = 2 -> decoded("Integer", io(read_i16(bytes, tag.pos)))
           [] tag.val = 3 -> decoded("Integer", io(read_i32(bytes, tag.pos)))
           [] tag.val = 4 -> decoded("Float", io(read_f32(bytes, tag.pos)))
           [] tag.val = 5 -> decoded("String", lookup_string(bytes, tag.pos, lookup))
           [] tag.val = 6 -> decoded("String", io(read_string(bytes, tag.pos)))
           [] tag.val = 7 -> decoded("RleString", io(read_rle_string(bytes, tag.pos)))
           [] OTHER -> LoadError("InvalidValueType", tag.val)

Value_decode(bytes, pos, lookup) ==
    decode_tagged(bytes, lookup, io(read_u8(bytes, pos)))

(***************************************************************************)
(* Value::encode.  The writer's state is the bytes of the stream and the   *)
(* IndexSet of strings, a sequence without repetitions.                    *)
(***************************************************************************)
\* u16::MAX
U16Max == 65535
\* u8::MAX
U8Max == 255
\* the `str.len() >= 64` cutoff of Value::String
LookupCutoff == 64

\* IndexSet::insert_full: the 0-based index of str
index_of(lookup, str) ==
    IF \E i \in DOMAIN lookup : lookup[i] = str
    THEN (CHOOSE i \in DOMAIN lookup : lookup[i] = str) - 1
    ELSE Len(lookup)

\* IndexSet::insert_full: the set afterwards
insert_full(lookup, str) ==
    IF \E i \in DOMAIN lookup : lookup[i] = str THEN lookup
    ELSE Append(lookup, str)

Writer(out, lookup) == [out |-> out, lookup |-> lookup]

\* the stream after write_all(bytes)
write_all(st, bytes) == Ok(Writer(st.out \o bytes, st.lookup), 0)

\* the stream after the type byte 7 and what write_rle_string wrote
write_rle(st, r) == IF r.ok THEN write_all(st, <<7>> \o r.val) ELSE r

\* the Value::String arm writing the index without inserting the string
encode_string_no_insert(str, st, index) ==
    IF index > U16Max
    THEN Ok(Writer(st.out \o <<6>> \o write_string(str), st.lookup), 0)
    ELSE Ok(Writer(st.out \o <<5>> \o u16_le(index), st.lookup), 0)

\* the Value::String arm, index being what insert_full returned
encode_string(str, st, index) ==
    IF index > U16Max
    THEN Ok(Writer(st.out \o <<6>> \o write_string(str),
                   insert_full(st.lookup, str)), 0)
    ELSE Ok(Writer(st.out \o <<5>> \o u16_le(index),
                   insert_full(st.lookup, str)), 0)

\* Value::encode with the u8 test of the Integer arm one too wide
Value_encode_wide_u8(v, st) ==
    CASE v.tag = "Boolean" -> write_all(st, <<0, IF v.val THEN 1 ELSE 0>>)
      [] v.tag = "Integer" ->
           IF v.val >= 0 /\ v.val <= U8Max + 1 THEN write_all(st, <<1, v.val>>)
           ELSE IF v.val >= -32768 /\ v.val <= 32767
           THEN write_all(st, <<2>> \o i16_le(v.val))
           ELSE write_all(st, <<3>> \o i32_le(v.val))
      [] v.tag = "Float" -> write_all(st, <<4>> \o f32_le(v.val))
      [] v.tag = "String" ->
           IF Len(v.val) >= LookupCutoff
           THEN write_all(st, <<6>> \o write_string(v.val))
           ELSE encode_string(v.val, st, index_of(st.lookup, v.val))
      [] v.tag = "RleString" -> write_rle(st, write_rle_string(v.val))

Value_encode(v, st) ==
    CASE v.tag = "Boolean" -> write_all(st, <<0, IF v.val THEN 1 ELSE 0>>)
      [] v.tag = "Integer" ->
           IF v.val >= 0 /\ v.val <= U8Max THEN write_all(st, <<1, v.val>>)
           ELSE IF v.val >= -32768 /\ v.val <= 32767
           THEN write_all(st, <<2>> \o i16_le(v.val))
           ELSE write_all(st, <<3>> \o i32_le(v.val))
      [] v.tag = "Float" -> write_all(st, <<4>> \o f32_le(v.val))
      [] v.tag = "String" ->
           IF Len(v.val) >= LookupCutoff
           THEN write_all(st, <<6>> \o write_string(v.val))
           ELSE encode_string(v.val, st, index_of(st.lookup, v.val))
      [] v.tag = "RleString" -> write_rle(st, write_rle_string(v.val))

(***************************************************************************)
(* HashMap<String, Value>                                                  *)
(***************************************************************************)
\* HashMap::new()
NoAttrs == [k \in {} |-> Boolean(FALSE)]

\* the map after inserting the <<key, value>> pairs in order
attrs_of(pairs) ==
    [k \in {pairs[i][1] : i \in DOMAIN pairs} |->
        pairs[CHOOSE i \in DOMAIN pairs :
                 /\ pairs[i][1] = k
                 /\ \A j \in DOMAIN pairs : pairs[j][1] = k => j <= i][2]]

\* HashMap::extend
extend(a, b) ==
    [k \in DOMAIN a \cup DOMAIN b |-> IF k \in DOMAIN b THEN b[k] ELSE a[k]]

\* the map after HashMap::remove of each key of K
without(a, K) == [k \in DOMAIN a \ K |-> a[k]]

\* the order HashMap's iterator yields the keys in: one of the orders, the
\* same one for the same set
RECURSIVE iter_keys(_)
RECURSIVE iter_from(_, _)
iter_from(K, k) == <<k>> \o iter_keys(K \ {k})

iter_keys(K) == IF K = {} THEN << >> ELSE iter_from(K, CHOOSE x \in K : TRUE)

(***************************************************************************)
(* Element::decode                                                         *)
(***************************************************************************)
RECURSIVE Element_decode(_, _, _)
RECURSIVE decode_attributes(_, _, _, _, _)
RECURSIVE decode_value(_, _, _, _, _)
RECURSIVE decode_pair(_, _, _, _, _, _)
RECURSIVE decode_children(_, _, _, _, _)
RECURSIVE decode_child(_, _, _, _, _)
RECURSIVE decode_child_count(_, _, _, _)

\* the attr_count key and value pairs, n of them still to read
decode_attributes(bytes, pos, lookup, n, acc) ==
    IF Len(acc) >= 0 /\ n = 0 THEN Ok(attrs_of(acc), pos)
    ELSE decode_value(bytes, lookup, n, acc, lookup_string(bytes, pos, lookup))

\* the value after the key that was read
decode_value(bytes, lookup, n, acc, key) ==
    IF ~key.ok THEN key
    ELSE decode_pair(bytes, lookup, n, acc, name_of(key.val),
                     Value_decode(bytes, key.pos, lookup))

\* the pair of the key and the value that was read
decode_pair(bytes, lookup, n, acc, key, value) ==
    IF ~value.ok THEN value
    ELSE decode_attributes(bytes, value.pos, lookup, n - 1,
                           Append(acc, <<key, value.val>>))

\* the child_count children, n of them still to read
decode_children(bytes, pos, lookup, n, acc) ==
    IF Len(acc) >= 0 /\ n = 0 THEN Ok(acc, pos)
    ELSE decode_child(bytes, lookup, n, acc, Element_decode(bytes, pos, lookup))

decode_child(bytes, lookup, n, acc, child) ==
    IF ~child.ok THEN child
    ELSE decode_children(bytes, child.pos, lookup, n - 1, Append(acc, child.val))

\* the element of the name, the attributes and the children that were read
decode_element(name, attributes, children) ==
    IF ~children.ok THEN children
    ELSE Ok(Element(name, attributes, children.val), children.pos)

\* the children after the child count that was read
decode_child_count(bytes, lookup, name_attributes, child_count) ==
    IF ~child_count.ok THEN child_count
    ELSE decode_element(name_attributes[1], name_attributes[2],
                        decode_children(bytes, child_count.pos, lookup,
                                        child_count.val, << >>))

\* the child count after the attributes that were read
decode_attr_done(bytes, lookup, name, attributes) ==
    IF ~attributes.ok THEN attributes
    ELSE decode_child_count(bytes, lookup, <<name, attributes.val>>,
                            io(read_u16(bytes, attributes.pos)))

\* the attributes after the attribute count that was read
decode_attr_count(bytes, lookup, name, attr_count) ==
    IF ~attr_count.ok THEN attr_count
    ELSE decode_attr_done(bytes, lookup, name,
                          decode_attributes(bytes, attr_count.pos, lookup,
                                            attr_count.val, << >>))

\* the attribute count after the name that was read
decode_name(bytes, lookup, name) ==
    IF ~name.ok THEN name
    ELSE decode_attr_count(bytes, lookup, name_of(name.val),
                           io(read_u8(bytes, name.pos)))

Element_decode(bytes, pos, lookup) ==
    decode_name(bytes, lookup, lookup_string(bytes, pos, lookup))

(***************************************************************************)
(* Element::encode                                                         *)
(***************************************************************************)
RECURSIVE Element_encode(_, _)
RECURSIVE encode_attributes(_, _, _)
RECURSIVE encode_attribute(_, _, _, _)
RECURSIVE encode_children(_, _)
RECURSIVE encode_child(_, _)
RECURSIVE encode_attributes_rest(_, _)

\* the stream after the index of a name, or
\* the error of an index past u16::MAX
write_name(st, name) ==
    IF index_of(st.lookup, name) > U16Max
    THEN Err("cannot store more than 65535 unique strings")
    ELSE Ok(Writer(st.out \o u16_le(index_of(st.lookup, name)),
                   insert_full(st.lookup, name)), 0)

\* the loop over self.attributes, keys being the keys still to write
encode_attributes(attributes, keys, st) ==
    IF Len(st.out) >= 0 /\ keys = << >> THEN Ok(st, 0)
    ELSE encode_attribute(attributes, keys, st, write_name(st, S(keys[1])))

\* the value after its key, then the rest
encode_attribute(attributes, keys, st, named) ==
    IF ~named.ok THEN named
    ELSE encode_attributes_rest(<<attributes, Tail(keys)>>,
                                Value_encode(attributes[keys[1]], named.val))

\* the rest of the attributes after a value is written; rest is the
\* attributes and the keys still to write
encode_attributes_rest(rest, r) ==
    IF ~r.ok THEN r ELSE encode_attributes(rest[1], rest[2], r.val)

\* the loop over self.children
encode_children(children, st) ==
    IF Len(st.out) >= 0 /\ children = << >> THEN Ok(st, 0)
    ELSE encode_child(Tail(children), Element_encode(children[1], st))

encode_child(children, r) ==
    IF ~r.ok THEN r ELSE encode_children(children, r.val)

\* the child count and the children after the attributes are written
encode_after_attributes(el, r) ==
    IF ~r.ok THEN r
    ELSE IF Len(el.children) > U16Max
    THEN Err("element cannot have more than 65535 children")
    ELSE encode_children(el.children,
                         Writer(r.val.out \o u16_le(Len(el.children)), r.val.lookup))

\* the attribute count and the attributes after the name is written
encode_after_name(el, named) ==
    IF ~named.ok THEN named
    ELSE IF Cardinality(DOMAIN el.attributes) > U8Max
    THEN Err("cannot have more than 255 attributes on an element")
    ELSE encode_after_attributes(el,
            encode_attributes(el.attributes, iter_keys(DOMAIN el.attributes),
                              Writer(named.val.out
                                        \o <<Cardinality(DOMAIN el.attributes)>>,
                                     named.val.lookup)))

Element_encode(el, st) == encode_after_name(el, write_name(st, S(el.name)))
(***************************************************************************)
(* The typed structures (src/src/map_serde.rs).  A conversion returns Ok    *)
(* with the structure, or Err with the LoadError or the panic.  Where the  *)
(* code binds the result of a step and goes on, the model hands the result *)
(* to an operator for the rest of the function.                            *)
(***************************************************************************)
\* remove_as!(el[field]: ty or default), for ty String, Float, Integer and
\* any other variant: the String arm takes an RleString too, the Float arm
\* an Integer, the Integer arm a Float
remove_as(el, field, ty, default) ==
    IF field \notin DOMAIN el.attributes THEN Ok(default, 0)
    ELSE CASE ty = "String" /\ el.attributes[field].tag \in {"String", "RleString"} ->
                Ok(el.attributes[field].val, 0)
           [] ty = "Float" /\ el.attributes[field].tag = "Float" ->
                Ok(el.attributes[field].val, 0)
           [] ty = "Float" /\ el.attributes[field].tag = "Integer" ->
                Ok(i32_as_f32(el.attributes[field].val), 0)
           [] ty = "Integer" /\ el.attributes[field].tag = "Integer" ->
                Ok(el.attributes[field].val, 0)
           [] ty = "Integer" /\ el.attributes[field].tag = "Float" ->
                Ok(f32_as_i32(el.attributes[field].val), 0)
           [] ty \notin {"String", "Float", "Integer"} /\ el.attributes[field].tag = ty ->
                Ok(el.attributes[field].val, 0)
           [] OTHER -> LoadError("InvalidFieldType", field)

\* remove_as!(el[field]: ty), the arm without `or`: an Option, and only the
\* variant named
remove_as_option(el, field, ty) ==
    IF field \notin DOMAIN el.attributes THEN Ok(None, 0)
    ELSE IF el.attributes[field].tag = ty THEN Ok(Some(el.attributes[field].val), 0)
    ELSE LoadError("InvalidFieldType", field)

\* check_name!(el is name)
check_name(el, name) ==
    IF el.name # name THEN LoadError("InvalidElementName", name) ELSE Ok(name, 0)

\* no result of the sequence is an Err
all_ok(rs) == \A i \in DOMAIN rs : rs[i].ok

\* the first Err of a sequence of results, in the order they are evaluated
first_err(rs) ==
    rs[CHOOSE i \in DOMAIN rs : ~rs[i].ok /\ \A j \in 1 .. (i - 1) : rs[j].ok]

\* collect::<Result<Vec<_>, _>>()
collect(rs) ==
    IF all_ok(rs) THEN Ok([i \in 1 .. Len(rs) |-> rs[i].val], 0) ELSE first_err(rs)

\* char::is_ascii_hexdigit
is_ascii_hexdigit(c) ==
    (c >= 48 /\ c <= 57) \/ (c >= 65 /\ c <= 70) \/ (c >= 97 /\ c <= 102)

\* the value of a hexadecimal digit
hex_value(c) == IF c <= 57 THEN c - 48 ELSE IF c <= 70 THEN c - 55 ELSE c - 87

\* parse_color without the test of the length
parse_color_any_length(color_string) ==
    IF \E i \in DOMAIN color_string : ~is_ascii_hexdigit(color_string[i])
    THEN LoadError("InvalidFieldData", "color")
    ELSE Ok([i \in 1 .. 4 |->
               IF 2 * i <= Len(color_string)
               THEN 16 * hex_value(color_string[2 * i - 1])
                    + hex_value(color_string[2 * i])
               ELSE 255], 0)

\* parse_color
parse_color(color_string) ==
    IF \/ Len(color_string) \notin {6, 8}
       \/ \E i \in DOMAIN color_string : ~is_ascii_hexdigit(color_string[i])
    THEN LoadError("InvalidFieldData", "color")
    ELSE Ok([i \in 1 .. 4 |->
               IF 2 * i <= Len(color_string)
               THEN 16 * hex_value(color_string[2 * i - 1])
                    + hex_value(color_string[2 * i])
               ELSE 255], 0)

\* a hexadecimal digit, lower case
hex_digit(d) == IF d < 10 THEN 48 + d ELSE 87 + d

\* format!("{v:02x}") of each byte, joined
RECURSIVE hex_string(_)
hex_string(color) ==
    IF color = << >> THEN << >>
    ELSE <<hex_digit(color[1] \div 16), hex_digit(color[1] % 16)>>
            \o hex_string(Tail(color))

\* [0xFF; 4]
White == <<255, 255, 255, 255>>

\* the attribute of the key, when the guard holds
attr_if(guard, key, value) == IF guard THEN <<<<key, value>>>> ELSE << >>

(***************************************************************************)
(* Decal                                                                   *)
(***************************************************************************)
\* the Decal of the fields and the color that was parsed
Decal_colored(x, y, scaleX, scaleY, texture, depth, rotation, color) ==
    IF ~color.ok THEN color
    ELSE Ok([position |-> <<x, y>>,
             scale |-> <<scaleX, scaleY>>,
             texture |-> texture,
             depth |-> depth,
             rotation |-> rotation,
             color |-> color.val], 0)

\* the Decal of the results of check_name! and remove_as!
Decal_fields(name, color_string, x, y, scaleX, scaleY, texture, depth, rotation) ==
    IF ~all_ok(<<name, color_string, x, y, scaleX, scaleY, texture, depth, rotation>>)
    THEN first_err(<<name, color_string, x, y, scaleX, scaleY, texture, depth,
                     rotation>>)
    ELSE Decal_colored(x.val, y.val, scaleX.val, scaleY.val, texture.val,
                       depth.val, rotation.val, parse_color(color_string.val))

Decal_try_from(value) ==
    Decal_fields(check_name(value, "decal"),
                 remove_as(value, "color", "String", S("ffffff")),
                 remove_as(value, "x", "Float", F0),
                 remove_as(value, "y", "Float", F0),
                 remove_as(value, "scaleX", "Float", F1),
                 remove_as(value, "scaleY", "Float", F1),
                 remove_as(value, "texture", "String", << >>),
                 remove_as(value, "depth", "Integer", 0),
                 remove_as(value, "rotation", "Float", F0))

\* From<Decal> for Element leaving the color out whenever red, green and blue
\* are ff, whatever the alpha
Element_from_Decal_rgb(value) ==
    Element("decal",
            attrs_of(<<<<"x", Float(value.position[1])>>,
                       <<"y", Float(value.position[2])>>,
                       <<"scaleX", Float(value.scale[1])>>,
                       <<"scaleY", Float(value.scale[2])>>,
                       <<"texture", String(value.texture)>>>>
                     \o attr_if(f32_ne_zero(value.rotation),
                                "rotation", Float(value.rotation))
                     \o attr_if(value.depth # 0, "depth", Integer(value.depth))
                     \o attr_if(SubSeq(value.color, 1, 3) # <<255, 255, 255>>,
                                "color", String(hex_string(value.color)))),
            << >>)

Element_from_Decal(value) ==
    Element("decal",
            attrs_of(<<<<"x", Float(value.position[1])>>,
                       <<"y", Float(value.position[2])>>,
                       <<"scaleX", Float(value.scale[1])>>,
                       <<"scaleY", Float(value.scale[2])>>,
                       <<"texture", String(value.texture)>>>>
                     \o attr_if(f32_ne_zero(value.rotation),
                                "rotation", Float(value.rotation))
                     \o attr_if(value.depth # 0, "depth", Integer(value.depth))
                     \o attr_if(value.color # White,
                                "color", String(hex_string(value.color)))),
            << >>)

(***************************************************************************)
(* Filler                                                                  *)
(***************************************************************************)
Filler_fields(name, x, y, w, h) ==
    IF ~all_ok(<<name, x, y, w, h>>) THEN first_err(<<name, x, y, w, h>>)
    ELSE Ok([position |-> <<x.val, y.val>>, size |-> <<w.val, h.val>>], 0)

Filler_try_from(value) ==
    Filler_fields(check_name(value, "rect"),
                  remove_as(value, "x", "Integer", 0),
                  remove_as(value, "y", "Integer", 0),
                  remove_as(value, "w", "Integer", 0),
                  remove_as(value, "h", "Integer", 0))

Element_from_Filler(value) ==
    Element("rect",
            attrs_of(<<<<"x", Integer(value.position[1])>>,
                       <<"y", Integer(value.position[2])>>,
                       <<"w", Integer(value.size[1])>>,
                       <<"h", Integer(value.size[2])>>>>),
            << >>)

(***************************************************************************)
(* LevelData                                                               *)
(***************************************************************************)
\* the progress fields taking any text that is no number as an absent value
parse_progress_lenient(str, field) ==
    IF ~str.ok THEN str
    ELSE IF str.val = << >> THEN Ok(None, 0)
    ELSE Ok(parse_i32(str.val), 0)

\* (!s.is_empty()).then(|| s.parse()).transpose().map_err(..) on the string
\* that remove_as! returned for the field
parse_progress(str, field) ==
    IF ~str.ok THEN str
    ELSE IF str.val = << >> THEN Ok(None, 0)
    ELSE IF parse_i32(str.val) = None
    THEN Err([kind |-> "InvalidFieldData", field |-> field, text |-> str.val])
    ELSE Ok(parse_i32(str.val), 0)

\* the attributes LevelData::load_from removes
LevelDataFields ==
    {"musicProgress", "ambienceProgress", "x", "y", "width", "height",
     "musicLayer1", "musicLayer2", "musicLayer3", "musicLayer4", "underwater",
     "space", "disableDownTransition", "cameraOffsetX", "cameraOffsetY",
     "windPattern", "alt_music", "ambience", "delayAltMusicFade", "music", "c",
     "dark", "enforceDashNumber", "whisper"}

\* the LevelData of the results, rs, in the order the code evaluates them
LevelData_fields(rs) ==
    IF ~all_ok(rs) THEN first_err(rs)
    ELSE Ok([music_progress |-> rs[1].val,
             ambience_progress |-> rs[2].val,
             position |-> <<rs[3].val, rs[4].val>>,
             size |-> <<rs[5].val, rs[6].val>>,
             music_layers |-> <<rs[7].val, rs[8].val, rs[9].val, rs[10].val>>,
             underwater |-> rs[11].val,
             space |-> rs[12].val,
             disable_down_transition |-> rs[13].val,
             camera_offset |-> <<rs[14].val, rs[15].val>>,
             wind_pattern |-> rs[16].val,
             alt_music |-> rs[17].val,
             ambience |-> rs[18].val,
             delay_alt_music_fade |-> rs[19].val,
             music |-> rs[20].val,
             color |-> rs[21].val,
             dark |-> rs[22].val,
             enforce_dash_number |-> rs[23].val,
             whisper |-> rs[24].val], 0)

LevelData_load_from(value) ==
    LevelData_fields(
        <<parse_progress(remove_as(value, "musicProgress", "String", << >>),
                         "musicProgress"),
          parse_progress(remove_as(value, "ambienceProgress", "String", << >>),
                         "ambienceProgress"),
          remove_as(value, "x", "Integer", 0),
          remove_as(value, "y", "Integer", 0),
          remove_as(value, "width", "Integer", 8),
          remove_as(value, "height", "Integer", 8),
          remove_as(value, "musicLayer1", "Boolean", FALSE),
          remove_as(value, "musicLayer2", "Boolean", FALSE),
          remove_as(value, "musicLayer3", "Boolean", FALSE),
          remove_as(value, "musicLayer4", "Boolean", FALSE),
          remove_as(value, "underwater", "Boolean", FALSE),
          remove_as(value, "space", "Boolean", FALSE),
          remove_as(value, "disableDownTransition", "Boolean", FALSE),
          remove_as(value, "cameraOffsetX", "Integer", 0),
          remove_as(value, "cameraOffsetY", "Integer", 0),
          remove_as(value, "windPattern", "String", S("None")),
          remove_as(value, "alt_music", "String", << >>),
          remove_as(value, "ambience", "String", << >>),
          remove_as(value, "delayAltMusicFade", "Boolean", FALSE),
          remove_as(value, "music", "String", << >>),
          remove_as(value, "c", "Integer", 0),
          remove_as(value, "dark", "Boolean", FALSE),
          remove_as_option(value, "enforceDashNumber", "Integer"),
          remove_as(value, "whisper", "Boolean", FALSE)>>)

\* Option<i32>::map_or(String::new(), |v| v.to_string())
progress_string(p) == IF p = None THEN << >> ELSE to_string(p[1])

\* the attributes LevelData::store_to extends the element's with
LevelData_store_to(self) ==
    attrs_of(<<<<"x", Integer(self.position[1])>>,
               <<"y", Integer(self.position[2])>>,
               <<"width", Integer(self.size[1])>>,
               <<"height", Integer(self.size[2])>>,
               <<"musicLayer1", Boolean(self.music_layers[1])>>,
               <<"musicLayer2", Boolean(self.music_layers[2])>>,
               <<"musicLayer3", Boolean(self.music_layers[3])>>,
               <<"musicLayer4", Boolean(self.music_layers[4])>>,
               <<"underwater", Boolean(self.underwater)>>,
               <<"space", Boolean(self.space)>>,
               <<"disableDownTransition", Boolean(self.disable_down_transition)>>,
               <<"musicProgress", String(progress_string(self.music_progress))>>,
               <<"cameraOffsetX", Integer(self.camera_offset[1])>>,
               <<"cameraOffsetY", Integer(self.camera_offset[2])>>,
               <<"windPattern", String(self.wind_pattern)>>,
               <<"ambienceProgress", String(progress_string(self.ambience_progress))>>,
               <<"alt_music", String(self.alt_music)>>,
               <<"ambience", String(self.ambience)>>,
               <<"delayAltMusicFade", Boolean(self.delay_alt_music_fade)>>,
               <<"music", String(self.music)>>,
               <<"c", Integer(self.color)>>,
               <<"dark", Boolean(self.dark)>>>>
             \o attr_if(self.enforce_dash_number # None, "enforceDashNumber",
                        Integer(unwrap_or(self.enforce_dash_number, 0)))
             \o <<<<"whisper", Boolean(self.whisper)>>>>)

(***************************************************************************)
(* Entity                                                                  *)
(***************************************************************************)
node_fields(name, x, y) ==
    IF ~all_ok(<<name, x, y>>) THEN first_err(<<name, x, y>>)
    ELSE Ok(<<x.val, y.val>>, 0)

\* the closure over an entity's children: a node's position
node_try_from(el) ==
    node_fields(check_name(el, "node"),
                remove_as(el, "x", "Float", F0),
                remove_as(el, "y", "Float", F0))

\* the attributes Entity::try_from removes
EntityFields == {"id", "x", "y", "width", "height", "originX", "originY"}

\* the Entity of the results, rs, in the order the code evaluates them
Entity_fields(value, rs) ==
    IF ~all_ok(rs) THEN first_err(rs)
    ELSE Ok([name |-> value.name,
             id |-> rs[1].val,
             position |-> <<rs[2].val, rs[3].val>>,
             width |-> rs[4].val,
             height |-> rs[5].val,
             origin |-> <<rs[6].val, rs[7].val>>,
             nodes |-> rs[8].val,
             values |-> without(value.attributes, EntityFields)], 0)

Entity_try_from(value) ==
    Entity_fields(value,
        <<remove_as(value, "id", "Integer", 0),
          remove_as(value, "x", "Float", F0),
          remove_as(value, "y", "Float", F0),
          remove_as_option(value, "width", "Integer"),
          remove_as_option(value, "height", "Integer"),
          remove_as(value, "originX", "Float", F0),
          remove_as(value, "originY", "Float", F0),
          collect([i \in 1 .. Len(value.children) |->
                     node_try_from(value.children[i])])>>)

\* the element of a node
node_element(node) ==
    Element("node",
            attrs_of(<<<<"x", Float(node[1])>>, <<"y", Float(node[2])>>>>), << >>)

Element_from_Entity(value) ==
    Element(value.name,
            extend(value.values,
                   attrs_of(<<<<"x", Float(value.position[1])>>,
                              <<"y", Float(value.position[2])>>>>
                            \o attr_if(value.width # None, "width",
                                       Integer(unwrap_or(value.width, 0)))
                            \o attr_if(value.height # None, "height",
                                       Integer(unwrap_or(value.height, 0)))
                            \o <<<<"originX", Float(value.origin[1])>>,
                                 <<"originY", Float(value.origin[2])>>,
                                 <<"id", Integer(value.id)>>>>)),
            [i \in 1 .. Len(value.nodes) |-> node_element(value.nodes[i])])

(***************************************************************************)
(* Level                                                                   *)
(***************************************************************************)
\* the quotient of Rust's `/` on i32, which rounds toward zero, for b > 0
div_i32(a, b) == IF a >= 0 THEN a \div b ELSE -((-a) \div b)

\* `as usize` on an i32: the two's complement bits, sign-extended
as_usize(n) == n % (UsizeMax + 1)

\* Tilemap::new as Level::try_from meets it: None on a product that
\* overflows, a panic on a Vec past isize::MAX bytes (a cell is 4 bytes)
Tilemap_new(k, w, h) ==
    IF new_data(k, w, h) = None THEN Ok(None, 0)
    ELSE IF capacity_overflow(Len(new_data(k, w, h)[1]), 4)
    THEN LoadError("panic", "capacity overflow")
    ELSE Ok(Some(Grid(w, h, new_data(k, w, h)[1])), 0)

\* Tilemap::load(text, w, h).unwrap() on the innerText that was removed
tilemap_text(k, text, w, h) ==
    IF ~text.ok THEN text
    ELSE IF k = "char" THEN Ok(load_char(text.val, w, h)[1], 0)
    ELSE Ok(load_i32(text.val, w, h)[1], 0)

\* a tilemap child: its innerText loaded into a grid of the level's size
tilemap_child(k, child, w, h) ==
    tilemap_text(k, remove_as(child, "innerText", "String", << >>), w, h)

\* the assignment of what an arm computed to the variable it names
assign(st, var, r) == IF r.ok THEN Ok([st EXCEPT ![var] = r.val], 0) ELSE r

\* children mapped with Entity::try_from and collected
entities_of(children) ==
    collect([j \in 1 .. Len(children) |-> Entity_try_from(children[j])])

\* children mapped with Decal::try_from and collected
decals_of(children) ==
    collect([j \in 1 .. Len(children) |-> Decal_try_from(children[j])])

\* the match on the name of a child of a level
level_child(child, st, w, h) ==
    CASE child.name = "entities" -> assign(st, "entities", entities_of(child.children))
      [] child.name = "triggers" -> assign(st, "triggers", entities_of(child.children))
      [] child.name = "bgdecals" -> assign(st, "bg_decals", decals_of(child.children))
      [] child.name = "fgdecals" -> assign(st, "fg_decals", decals_of(child.children))
      [] child.name = "bg" -> assign(st, "bg", tilemap_child("char", child, w, h))
      [] child.name = "bgtiles" -> assign(st, "bg_tiles", tilemap_child("i32", child, w, h))
      [] child.name = "fgtiles" -> assign(st, "fg_tiles", tilemap_child("i32", child, w, h))
      [] child.name = "solids" -> assign(st, "solids", tilemap_child("char", child, w, h))
      [] child.name = "objtiles" -> assign(st, "obj_tiles", tilemap_child("i32", child, w, h))
      [] OTHER -> Ok([st EXCEPT !.extra_children = Append(@, child)], 0)

\* the children of a level element, one after the other from child i; st
\* holds the lists and tilemaps assigned so far
RECURSIVE level_children(_, _, _, _, _)
RECURSIVE level_children_rest(_, _, _, _, _)
level_children(children, i, st, w, h) ==
    IF Len(st.extra_children) >= 0 /\ i > Len(children) THEN Ok(st, 0)
    ELSE level_children_rest(children, i, level_child(children[i], st, w, h), w, h)

level_children_rest(children, i, r, w, h) ==
    IF ~r.ok THEN r ELSE level_children(children, i + 1, r.val, w, h)

\* the Level once its children are gone through
Level_of(value, level_data, name, st) ==
    IF ~st.ok THEN st
    ELSE Ok([name |-> name,
             data |-> level_data,
             entities |-> st.val.entities,
             triggers |-> st.val.triggers,
             bg_decals |-> st.val.bg_decals,
             fg_decals |-> st.val.fg_decals,
             bg |-> st.val.bg,
             bg_tiles |-> st.val.bg_tiles,
             fg_tiles |-> st.val.fg_tiles,
             obj_tiles |-> st.val.obj_tiles,
             solids |-> st.val.solids,
             extra_children |-> st.val.extra_children,
             extra_data |-> without(value.attributes,
                                    LevelDataFields \cup {"name"})], 0)

\* the loop over the children once the five empty tilemaps are made
Level_with_tilemaps(value, level_data, name, tile_width, tile_height, bg, tiles) ==
    IF ~bg.ok THEN bg
    ELSE IF bg.val = None THEN LoadError("InvalidFieldData", "bg")
    ELSE Level_of(value, level_data, name,
            level_children(value.children, 1,
               [entities |-> << >>, triggers |-> << >>,
                bg_decals |-> << >>, fg_decals |-> << >>,
                bg |-> bg.val[1], bg_tiles |-> tiles.val[1],
                fg_tiles |-> tiles.val[1], obj_tiles |-> tiles.val[1],
                solids |-> bg.val[1], extra_children |-> << >>],
               tile_width, tile_height))

\* the tilemaps once the tile size and the name are known
Level_with_name(value, level_data, tile_width, tile_height, name) ==
    IF ~name.ok THEN name
    ELSE Level_with_tilemaps(value, level_data, name.val, tile_width, tile_height,
                             Tilemap_new("char", tile_width, tile_height),
                             Tilemap_new("i32", tile_width, tile_height))

\* the checks of the size, the tile size and the name once the data is read
Level_with_data(value, name_ok, level_data) ==
    IF ~name_ok.ok THEN name_ok
    ELSE IF ~level_data.ok THEN level_data
    ELSE IF level_data.val.size[1] < 0 THEN LoadError("InvalidFieldData", "width")
    ELSE IF level_data.val.size[1] < 0 THEN LoadError("InvalidFieldData", "height")
    ELSE Level_with_name(value, level_data.val,
                         as_usize(div_i32(level_data.val.size[1], 8)),
                         as_usize(div_i32(level_data.val.size[2], 8)),
                         remove_as(value, "name", "String", S("<unnamed>")))

Level_try_from(value) ==
    Level_with_data(value, check_name(value, "level"), LevelData_load_from(value))

\* an element of the given name, without attributes, holding the children
container(name, children) == Element(name, NoAttrs, children)

\* a tilemap's element: its text under innerText
tiles_element(name, value) ==
    Element(name, attrs_of(<<<<"innerText", value>>>>), << >>)

\* the element of a level and of the texts, ts, its five tilemaps stored
Level_element(value, ts) ==
    IF ~all_ok(ts) THEN LoadError("panic", first_err(ts).err)
    ELSE Ok(Element("level",
               extend(extend(value.extra_data, LevelData_store_to(value.data)),
                      attrs_of(<<<<"name", String(value.name)>>>>)),
               value.extra_children \o
               <<container("entities",
                           [i \in 1 .. Len(value.entities) |->
                              Element_from_Entity(value.entities[i])]),
                 container("triggers",
                           [i \in 1 .. Len(value.triggers) |->
                              Element_from_Entity(value.triggers[i])]),
                 container("bgdecals",
                           [i \in 1 .. Len(value.bg_decals) |->
                              Element_from_Decal(value.bg_decals[i])]),
                 container("fgdecals",
                           [i \in 1 .. Len(value.fg_decals) |->
                              Element_from_Decal(value.fg_decals[i])]),
                 tiles_element("bg", RleString(ts[1].val)),
                 tiles_element("bgtiles", String(ts[2].val)),
                 tiles_element("fgtiles", String(ts[3].val)),
                 tiles_element("objtiles", String(ts[4].val)),
                 tiles_element("solids", RleString(ts[5].val))>>), 0)

\* From<Level> for Element: Ok with the element, or the panic of the first
\* tilemap whose store panics
Element_from_Level(value) ==
    Level_element(value,
                  <<store_char(value.bg), store_i32(value.bg_tiles),
                    store_i32(value.fg_tiles), store_i32(value.obj_tiles),
                    store_char(value.solids)>>)

(***************************************************************************)
(* Map                                                                     *)
(***************************************************************************)
\* the grandchildren of a Style element, from grandchild i: the children
\* of the last Foregrounds and of the last Backgrounds
RECURSIVE style_children(_, _, _)
style_children(children, i, st) ==
    IF Len(st.foregrounds) >= 0 /\ i > Len(children) THEN st
    ELSE style_children(children, i + 1,
            CASE children[i].name = "Foregrounds" ->
                   [st EXCEPT !.foregrounds = children[i].children]
              [] children[i].name = "Backgrounds" ->
                   [st EXCEPT !.backgrounds = children[i].children]
              [] OTHER -> st)

\* Ok(Some(v)) of an Ok(v)
some_ok(r) == IF r.ok THEN Ok(Some(r.val), 0) ELSE r

\* .map(parse_color).transpose() on the Option that remove_as! returned
color_option(color) ==
    IF ~color.ok THEN color
    ELSE IF color.val = None THEN color
    ELSE some_ok(parse_color(color.val[1]))

\* the Style arm: the color, then the grandchildren
style_child(child, st, color) ==
    IF ~color.ok THEN color
    ELSE Ok(style_children(child.children, 1, [st EXCEPT !.bg_color = color.val]), 0)

\* children mapped with Filler::try_from and collected
fillers_of(children) ==
    collect([j \in 1 .. Len(children) |-> Filler_try_from(children[j])])

\* children mapped with Level::try_from and collected
levels_of(children) ==
    collect([j \in 1 .. Len(children) |-> Level_try_from(children[j])])

\* the match on the name of a child of the Map element
map_child(child, st) ==
    CASE child.name = "Filler" -> assign(st, "filler", fillers_of(child.children))
      [] child.name = "Style" ->
           style_child(child, st,
                       color_option(remove_as_option(child, "color", "String")))
      [] child.name = "levels" -> assign(st, "levels", levels_of(child.children))
      [] OTHER -> Ok([st EXCEPT !.extra_children = Append(@, child)], 0)

\* the children of the Map element, one after the other from child i
RECURSIVE map_children(_, _, _)
RECURSIVE map_children_rest(_, _, _)
map_children(children, i, st) ==
    IF Len(st.extra_children) >= 0 /\ i > Len(children) THEN Ok(st, 0)
    ELSE map_children_rest(children, i, map_child(children[i], st))

map_children_rest(children, i, r) ==
    IF ~r.ok THEN r ELSE map_children(children, i + 1, r.val)

\* the Map once its children are gone through
Map_of(value, package, st) ==
    IF ~st.ok THEN st
    ELSE Ok([package |-> package,
             filler |-> st.val.filler,
             levels |-> st.val.levels,
             foregrounds |-> st.val.foregrounds,
             backgrounds |-> st.val.backgrounds,
             bg_color |-> st.val.bg_color,
             extra_data |-> without(value.attributes, {"_package"}),
             extra_children |-> st.val.extra_children], 0)

\* the loop over the children once the name and the package are checked
Map_with_package(value, name, package) ==
    IF ~name.ok THEN name
    ELSE IF ~package.ok THEN package
    ELSE Map_of(value, package.val,
            map_children(value.children, 1,
               [bg_color |-> None, filler |-> << >>, foregrounds |-> << >>,
                backgrounds |-> << >>, levels |-> << >>,
                extra_children |-> << >>]))

Map_try_from(value) ==
    Map_with_package(value, check_name(value, "Map"),
                     remove_as(value, "_package", "String", << >>))

\* the attributes of the Style element
style_attrs(bg_color) ==
    attrs_of(attr_if(bg_color # None, "color",
                     String(hex_string(unwrap_or(bg_color, White)))))

\* the element of a map and of the elements its levels were turned into
Map_element(value, levels) ==
    IF ~levels.ok THEN levels
    ELSE Ok(Element("Map",
               extend(value.extra_data,
                      attrs_of(<<<<"_package", String(value.package)>>>>)),
               value.extra_children \o
               <<container("Filler",
                           [i \in 1 .. Len(value.filler) |->
                              Element_from_Filler(value.filler[i])]),
                 Element("Style", style_attrs(value.bg_color),
                         <<container("Foregrounds", value.foregrounds),
                           container("Backgrounds", value.backgrounds)>>),
                 container("levels", levels.val)>>), 0)

\* From<Map> for Element: Ok with the element, or the panic of the first
\* level whose conversion panics
Element_from_Map(value) ==
    Map_element(value,
                collect([i \in 1 .. Len(value.levels) |->
                           Element_from_Level(value.levels[i])]))

(***************************************************************************)
(* Map::load and Map::store (src/src/lib.rs)                               *)
(***************************************************************************)
\* the lookup_length strings of the table, n of them still to read
RECURSIVE read_lookup(_, _, _, _)
RECURSIVE read_lookup_rest(_, _, _, _)
read_lookup(bytes, pos, n, acc) ==
    IF Len(acc) >= 0 /\ n = 0 THEN Ok(acc, pos)
    ELSE read_lookup_rest(bytes, n, acc, io(read_string(bytes, pos)))

read_lookup_rest(bytes, n, acc, r) ==
    IF ~r.ok THEN r ELSE read_lookup(bytes, r.pos, n - 1, Append(acc, r.val))

\* map.attributes.insert("_package", ..) and map.try_into()
load_map(package, map) ==
    IF ~map.ok THEN map
    ELSE Map_try_from([map.val EXCEPT !.attributes =
                          extend(@, attrs_of(<<<<"_package", String(package)>>>>))])

\* the root element after the table that was read
load_lookup(bytes, package, lookup) ==
    IF ~lookup.ok THEN lookup
    ELSE load_map(package, Element_decode(bytes, lookup.pos, lookup.val))

\* the table after its length that was read
load_lookup_length(bytes, package, lookup_length) ==
    IF ~lookup_length.ok THEN lookup_length
    ELSE load_lookup(bytes, package,
                     read_lookup(bytes, lookup_length.pos, lookup_length.val, << >>))

\* the length of the table after the package that was read
load_package(bytes, package) ==
    IF ~package.ok THEN package
    ELSE load_lookup_length(bytes, package.val, io(read_u16(bytes, package.pos)))

\* the check of the header that was read, and the package after it
load_header(bytes, check_header, header) ==
    IF ~header.ok THEN header
    ELSE IF check_header /\ header.val # S("CELESTE MAP")
    THEN LoadError("InvalidHeader", header.val)
    ELSE load_package(bytes, io(read_string(bytes, header.pos)))

Map_load(bytes, check_header) ==
    load_header(bytes, check_header,
                IF check_header THEN io(read_string(bytes, 1)) ELSE Ok(<< >>, 1))

\* the strings of the table, each written with write_string: those at
\* positions lo..hi, split in halves so that a full table can be written
RECURSIVE write_lookup_range(_, _, _)
write_lookup_range(strings, lo, hi) ==
    IF lo > hi THEN << >>
    ELSE IF lo = hi THEN write_string(strings[lo])
    ELSE write_lookup_range(strings, lo, (lo + hi) \div 2)
            \o write_lookup_range(strings, ((lo + hi) \div 2) + 1, hi)

write_lookup(strings) == write_lookup_range(strings, 1, Len(strings))

\* the stream after the header, the package, the table and buf are written
store_buf(write_header, package, buf) ==
    IF ~buf.ok THEN io(buf)
    ELSE IF Len(buf.val.lookup) > U16Max
    THEN LoadError("Io", "cannot store more than 65535 unique strings in a map")
    ELSE Ok((IF write_header THEN write_string(S("CELESTE MAP")) ELSE << >>)
            \o write_string(package)
            \o u16_le(Len(buf.val.lookup))
            \o write_lookup(buf.val.lookup)
            \o buf.val.out, 0)

\* the caller's stream with the header written before the tree is encoded
stream_written_header_first(write_header, package, buf) ==
    IF ~buf.ok \/ Len(buf.val.lookup) > U16Max
    THEN IF write_header THEN write_string(S("CELESTE MAP")) ELSE << >>
    ELSE (IF write_header THEN write_string(S("CELESTE MAP")) ELSE << >>)
            \o write_string(package)
            \o u16_le(Len(buf.val.lookup))
            \o write_lookup(buf.val.lookup)
            \o buf.val.out

\* what Map::store has written to the caller's stream (a Vec, whose writes
\* do not fail) when it returns: nothing when `el.encode(..)?` or the
\* u16::try_from of the table's length returned early
stream_written(write_header, package, buf) ==
    IF ~buf.ok THEN << >>
    ELSE IF Len(buf.val.lookup) > U16Max THEN << >>
    ELSE (IF write_header THEN write_string(S("CELESTE MAP")) ELSE << >>)
            \o write_string(package)
            \o u16_le(Len(buf.val.lookup))
            \o write_lookup(buf.val.lookup)
            \o buf.val.out

\* el.attributes.remove("_package").map_or(String::new(), ..): the package
\* is a String, as From<Map> always inserts one
package_of(el) ==
    IF "_package" \in DOMAIN el.attributes THEN el.attributes["_package"].val
    ELSE << >>

\* the rest of Map::store once the element el is made
store_element(el, write_header) ==
    store_buf(write_header, package_of(el),
              Element_encode([el EXCEPT !.attributes = without(@, {"_package"})],
                             Writer(<< >>, << >>)))

\* Map::store with the package name put into the string table before the
\* tree is encoded
store_from_package_interned(el, write_header) ==
    IF ~el.ok THEN el
    ELSE store_buf(write_header, package_of(el.val),
                   Element_encode([el.val EXCEPT
                                      !.attributes = without(@, {"_package"})],
                                  Writer(<< >>, <<package_of(el.val)>>)))

\* Map::store(self, stream, write_header), el being Element::from(self)
store_from(el, write_header) ==
    IF ~el.ok THEN el ELSE store_element(el.val, write_header)

Map_store(self, write_header) == store_from(Element_from_Map(self), write_header)
(***************************************************************************)
(* Map::load, Map::store and Map::load again, on the files of a family of  *)
(* documents: a map with passthrough attributes and children, with no      *)
(* level or with one level whose width and height attributes are absent,   *)
(* or 0, under the 8 pixels of a tile, one tile or two.                    *)
(***************************************************************************)
LevelWidths == {None, Some(0), Some(3), Some(8), Some(16)}
LevelHeights == {None, Some(0), Some(16)}
\* the innerText of a level's bg child: empty, "a", "0a"; and of its
\* bgtiles child: empty, "5", "-1,5"
BgTexts == {<< >>, <<97>>, <<48, 97>>}
TileTexts == {<< >>, <<53>>, <<45, 49, 44, 53>>}

EntityDoc ==
    Element("spinner",
            attrs_of(<<<<"x", Integer(5)>>, <<"width", Integer(8)>>,
                       <<"extra", Boolean(TRUE)>>>>),
            <<Element("node", attrs_of(<<<<"x", Float(F1)>>>>), << >>)>>)

DecalDoc ==
    Element("decal",
            attrs_of(<<<<"x", Integer(5)>>, <<"texture", String(<<97>>)>>,
                       <<"color", String(S("336699cc"))>>>>),
            << >>)

LevelDoc(w, h, bg_text, tile_text) ==
    Element("level",
            attrs_of(<<<<"name", String(S("lvl_a"))>>,
                       <<"extra", Integer(5)>>,
                       <<"musicProgress", String(<<53>>)>>>>
                     \o attr_if(w # None, "width", Integer(unwrap_or(w, 0)))
                     \o attr_if(h # None, "height", Integer(unwrap_or(h, 0)))),
            <<tiles_element("bg", RleString(bg_text)),
              tiles_element("bgtiles", String(tile_text)),
              container("entities", <<EntityDoc>>),
              container("bgdecals", <<DecalDoc>>),
              container("meta", << >>)>>)

MapDoc(levels) ==
    Element("Map",
            attrs_of(<<<<"_package", String(S("pkg"))>>,
                       <<"extra", Integer(-70000)>>>>),
            <<container("meta", <<container("a", << >>)>>),
              container("Filler",
                        <<Element("rect", attrs_of(<<<<"x", Integer(5)>>>>), << >>)>>),
              Element("Style",
                      attrs_of(<<<<"color", String(S("ff0000"))>>>>),
                      <<container("Foregrounds", <<container("parallax", << >>)>>)>>),
              container("levels", levels)>>)

Documents ==
    {MapDoc(<< >>)} \cup
    {MapDoc(<<LevelDoc(w, h, b, t)>>) :
        w \in LevelWidths, h \in LevelHeights, b \in BgTexts, t \in TileTexts}

InitMap ==
    /\ NoGrid
    /\ NoCodec
    /\ phase = "map_start"

\* Map::load(stream, true) on a file
LoadFile(file) ==
    /\ file.ok
    /\ stream' = file.val
    /\ input' = Map_load(file.val, TRUE)
    /\ phase' = "map_loaded"
    /\ UNCHANGED <<grid, written, result>>

\* Map::load(stream, true) on the file of a document
LoadDoc(doc) ==
    /\ phase = "map_start"
    /\ LoadFile(store_element(doc, TRUE))

\* Map::store(m, write_header) on the map that was loaded
Store(write_header) ==
    /\ phase = "map_loaded"
    /\ input.ok
    /\ written' = Map_store(input.val, write_header)
    /\ call' = Call("store", IF write_header THEN 1 ELSE 0, 0,
                    IF written'.ok THEN "Ok" ELSE written'.err.kind)
    /\ phase' = "map_stored"
    /\ UNCHANGED <<kind, width, height, data, ub, orig, input, stream, result>>

\* Map::load(stream, check_header = write_header) on the bytes written
Reload ==
    /\ phase = "map_stored"
    /\ written.ok
    /\ result' = Map_load(written.val, call.a = 1)
    /\ phase' = "map_reloaded"
    /\ UNCHANGED <<grid, input, written, stream>>

NextMap ==
    \/ \E doc \in Documents : LoadDoc(doc)
    \/ \E write_header \in BOOLEAN : Store(write_header)
    \/ Reload

SpecMap == InitMap /\ [][NextMap]_vars

(***************************************************************************)
(* C1: for every map m that Map::load returns, Map::store(m) returns, Ok   *)
(* or an error, and loading the bytes it wrote, with check_header equal to *)
(* write_header, returns a map equal to m.                                 *)
(***************************************************************************)
C1_MapRoundTrip ==
    /\ phase = "map_stored" => (written.ok \/ written.err.kind # "panic")
    /\ phase = "map_reloaded" => (result.ok /\ result.val = input.val)

(***************************************************************************)
(* Value scenario: a value is encoded on an empty stream with an empty     *)
(* string table, and what was written is decoded with the table the        *)
(* encoder built.                                                          *)
(***************************************************************************)
\* how far around each boundary of the integer encodings the inputs go
Near == 3

\* the boundaries of the three integer encodings and of i32
IntegerEdges == {I32Min, -32768, 0, U8Max, 32767, I32Max}

\* the i32 values near a boundary, and a few in the middle of each range
Integers32 ==
    {e + d : e \in IntegerEdges \ {I32Min, I32Max}, d \in (-Near) .. Near}
       \cup {I32Min + d : d \in 0 .. Near}
       \cup {I32Max - d : d \in 0 .. Near}
       \cup {-70000, -16777217, -129, -128, -100, 100, 127, 128, 1000, 65535,
             65536, 70000, 16777216}

\* the values of the other variants handed to Value::encode
OtherValues ==
    <<Boolean(FALSE), Boolean(TRUE), Float(F0), Float(F1),
      String(<< >>), String(<<97>>), RleString(<<97, 97>>)>>

InitValue ==
    /\ NoGrid
    /\ NoCodec
    /\ phase = "value_start"

\* Value::encode(v, stream, lookup) on an empty stream and an empty table
EncodeValue(v) ==
    /\ phase = "value_start"
    /\ input' = v
    /\ written' = Value_encode(v, Writer(<< >>, << >>))
    /\ stream' = IF written'.ok THEN written'.val.out ELSE << >>
    /\ phase' = "value_encoded"
    /\ UNCHANGED <<grid, result>>

\* Value::decode(stream, lookup) on the bytes and the table of the encoder
DecodeValue ==
    /\ phase = "value_encoded"
    /\ written.ok
    /\ result' = Value_decode(stream, 1, written.val.lookup)
    /\ phase' = "value_decoded"
    /\ UNCHANGED <<grid, input, written, stream>>

NextValue ==
    \/ \E i \in Integers32 : EncodeValue(Integer(i))
    \/ \E k \in DOMAIN OtherValues : EncodeValue(OtherValues[k])
    \/ DecodeValue

SpecValue == InitValue /\ [][NextValue]_vars

\* the signed number whose two's complement bytes, low byte first, are b
RECURSIVE SignedLe(_)
SignedLe(b) ==
    IF Len(b) = 1 THEN (IF b[1] >= 128 THEN b[1] - 256 ELSE b[1])
    ELSE b[1] + 256 * SignedLe(Tail(b))

(***************************************************************************)
(* C11: Value::encode of Integer(i) writes tag 1 and one byte exactly when *)
(* 0 <= i <= 255, tag 2 and a little-endian signed 16-bit value exactly    *)
(* when i is in [-32768, 32767] but not in [0, 255], and tag 3 and a       *)
(* little-endian signed 32-bit value otherwise; decoding the written bytes *)
(* returns Integer(i).                                                     *)
(***************************************************************************)
C11_IntegerTags ==
    /\ (phase \in {"value_encoded", "value_decoded"} /\ input.tag = "Integer")
          => /\ written.ok
             /\ \A k \in DOMAIN stream : stream[k] \in 0 .. 255
             /\ stream[1] = (IF input.val >= 0 /\ input.val <= 255 THEN 1
                             ELSE IF input.val >= -32768 /\ input.val <= 32767
                             THEN 2 ELSE 3)
             /\ Len(stream) = (IF stream[1] = 1 THEN 2
                               ELSE IF stream[1] = 2 THEN 3 ELSE 5)
             /\ stream[1] = 1 => stream[2] = input.val
             /\ stream[1] # 1 => SignedLe(Tail(stream)) = input.val
    /\ (phase = "value_decoded" /\ input.tag = "Integer")
          => /\ result.ok
             /\ result.val = input
             /\ result.pos = Len(stream) + 1

\* a negative integer outside the 16-bit range has been encoded with tag 3
\* and decoded
C11_Witness ==
    /\ phase = "value_decoded"
    /\ input.tag = "Integer"
    /\ input.val < -32768
    /\ stream[1] = 3
    /\ result.ok

(***************************************************************************)
(* The string table of one store call.                                     *)
(***************************************************************************)
\* the element Map::store encodes: Element::from(m) without "_package"
StoredElement(m) ==
    [Element_from_Map(m).val EXCEPT !.attributes = without(@, {"_package"})]

\* the parts of a stored file: the count and the strings of the table, and
\* the position of the tree
StoredParts(bytes, header) ==
    LET package == read_string(bytes,
                               IF header THEN read_string(bytes, 1).pos ELSE 1)
        count == read_u16(bytes, package.pos)
        table == read_lookup(bytes, count.pos, count.val, << >>)
    IN  [count |-> count.val, table |-> table.val, tree |-> table.pos]

\* the strings an attribute map hands to the table, keys being its keys in
\* the order they are written: each key, and its value when the value is a
\* String under the cutoff
AttributeUses(attributes, keys) ==
    flatten([i \in 1 .. Len(keys) |->
               <<S(keys[i])>> \o
               (IF /\ attributes[keys[i]].tag = "String"
                   /\ Len(attributes[keys[i]].val) < LookupCutoff
                THEN <<attributes[keys[i]].val>> ELSE << >>)])

\* the strings a tree hands to the table, in the order it is written
RECURSIVE Uses(_)
Uses(el) ==
    <<S(el.name)>>
       \o AttributeUses(el.attributes, iter_keys(DOMAIN el.attributes))
       \o flatten([i \in 1 .. Len(el.children) |-> Uses(el.children[i])])

\* the first occurrences of a sequence's elements, in order
RECURSIVE FirstUses(_, _)
FirstUses(seq, acc) ==
    IF Len(acc) >= 0 /\ seq = << >> THEN acc
    ELSE FirstUses(Tail(seq),
                   IF \E i \in DOMAIN acc : acc[i] = seq[1] THEN acc
                   ELSE Append(acc, seq[1]))

(***************************************************************************)
(* C12: during one store call the string table holds no duplicates and     *)
(* assigns indices in first-use order starting at 0; the table is emitted  *)
(* in index order, so every index written in the tree is smaller than the  *)
(* emitted count and resolves on load to the string that was encoded.      *)
(***************************************************************************)
C12_StringTable ==
    (phase = "map_stored" /\ written.ok)
       => LET parts == StoredParts(written.val, call.a = 1)
          IN  /\ parts.count = Len(parts.table)
              /\ \A i, j \in DOMAIN parts.table :
                    parts.table[i] = parts.table[j] => i = j
              /\ parts.table = FirstUses(Uses(StoredElement(input.val)), << >>)
              /\ Element_decode(written.val, parts.tree, parts.table)
                    = Ok(StoredElement(input.val), Len(written.val) + 1)

\* a map with a level has been stored, and its tree uses strings more than
\* once
C12_Witness ==
    /\ phase = "map_stored"
    /\ written.ok
    /\ Len(input.val.levels) > 0
    /\ Len(Uses(StoredElement(input.val)))
          > Len(StoredParts(written.val, call.a = 1).table)

(***************************************************************************)
(* Store scenario with a table that is already in use.  Map::store encodes *)
(* the tree into buf and the strings into one table, element after         *)
(* element; the scenario takes the call at the point where the part of the *)
(* document encoded so far has put n strings into the table, encodes one   *)
(* more element, and finishes the call: the check of the table's length    *)
(* and the writes to the stream.  The bytes of the earlier part are left   *)
(* out of buf.                                                             *)
(***************************************************************************)
\* the number of strings the earlier part of the document has interned
TableSizes == {0, 1, U16Max - 1, U16Max, U16Max + 1}

\* the table after the earlier part: "a", then strings of three bytes that
\* no element of the scenario uses
Table(n) ==
    IF n = 0 THEN << >>
    ELSE <<<<97>>>> \o
         [i \in 1 .. n - 1 |-> <<i % 128, (i \div 128) % 128, i \div 16384>>]

\* a String value at the cutoff of 64 bytes
LongText == [i \in 1 .. LookupCutoff |-> 98]

\* a text with more runs than the (scaled) RLE byte count can hold
ManyRuns == [i \in 1 .. PrefixMax + 2 |-> 97 + (i % 2)]

HexNames ==
    <<"0", "1", "2", "3", "4", "5", "6", "7", "8", "9", "a", "b", "c", "d",
      "e", "f">>

\* 256 attributes, one more than a u8 counts
ManyAttributes ==
    [k \in {"k" \o HexNames[(i \div 16) + 1] \o HexNames[(i % 16) + 1] :
              i \in 0 .. U8Max} |-> Integer(0)]

\* 65,536 children, one more than a u16 counts
ManyChildren == [i \in 1 .. U16Max + 1 |-> Element("a", NoAttrs, << >>)]

\* the elements encoded on the table
TailElements ==
    <<Element("a", NoAttrs, << >>),
      Element("meta", NoAttrs, << >>),
      Element("a", attrs_of(<<<<"a", Integer(5)>>>>), << >>),
      Element("a", attrs_of(<<<<"x", Integer(5)>>>>), << >>),
      Element("a", attrs_of(<<<<"a", String(<<97>>)>>>>), << >>),
      Element("a", attrs_of(<<<<"a", String(<<122, 122>>)>>>>), << >>),
      Element("a", attrs_of(<<<<"a", String(LongText)>>>>), << >>),
      Element("a", attrs_of(<<<<"a", String(<<122, 122>>)>>>>),
              <<Element("meta", NoAttrs, << >>)>>),
      Element("a", attrs_of(<<<<"a", String(<<122, 122>>)>>>>),
              <<Element("a", attrs_of(<<<<"a", String(<<53>>)>>>>), << >>)>>),
      Element("a", attrs_of(<<<<"a", RleString(<<97, 97>>)>>>>), << >>),
      Element("a", attrs_of(<<<<"a", RleString(ManyRuns)>>>>), << >>),
      Element("a", ManyAttributes, << >>),
      Element("a", NoAttrs, ManyChildren)>>

InitTable ==
    /\ NoGrid
    /\ NoCodec
    /\ phase = "tail_start"

\* buf and strings after el.encode: the bytes of the tree, the length of
\* the table and the strings added to the n it held
Encoded(n, buf) ==
    IF ~buf.ok THEN buf
    ELSE [ok |-> TRUE,
          out |-> buf.val.out,
          lookup_length |-> Len(buf.val.lookup),
          added |-> SubSeq(buf.val.lookup, n + 1, Len(buf.val.lookup))]

\* the rest of Map::store once el.encode has returned buf
StoreBuf(n, el, write_header, buf) ==
    /\ input' = [lookup_length |-> n, el |-> el]
    /\ result' = Encoded(n, buf)
    /\ written' = store_buf(write_header, S("pkg"), buf)
    /\ stream' = stream_written(write_header, S("pkg"), buf)
    /\ call' = Call("store", IF write_header THEN 1 ELSE 0, 0,
                    IF written'.ok THEN "Ok" ELSE written'.err.kind)
    /\ phase' = "tail_stored"
    /\ UNCHANGED <<kind, width, height, data, ub, orig>>

\* Map::store(.., write_header) from the point where the table holds n
\* strings and el is the element left to encode
StoreTail(n, el, write_header) ==
    /\ phase = "tail_start"
    /\ StoreBuf(n, el, write_header, Element_encode(el, Writer(<< >>, Table(n))))

NextTable ==
    \E n \in TableSizes, k \in DOMAIN TailElements, write_header \in BOOLEAN :
        StoreTail(n, TailElements[k], write_header)

SpecTable == InitTable /\ [][NextTable]_vars

\* some element of the tree has more attributes than a u8 counts
RECURSIVE TooManyAttributes(_)
TooManyAttributes(el) ==
    \/ Cardinality(DOMAIN el.attributes) > 255
    \/ \E i \in DOMAIN el.children : TooManyAttributes(el.children[i])

\* some element of the tree has more children than a u16 counts
RECURSIVE TooManyChildren(_)
TooManyChildren(el) ==
    \/ Len(el.children) > 65535
    \/ \E i \in DOMAIN el.children : TooManyChildren(el.children[i])

\* the element names and attribute names of a tree, in the order they are
\* written
RECURSIVE NameUses(_)
NameUses(el) ==
    <<S(el.name)>>
       \o [i \in 1 .. Cardinality(DOMAIN el.attributes) |->
             S(iter_keys(DOMAIN el.attributes)[i])]
       \o flatten([i \in 1 .. Len(el.children) |-> NameUses(el.children[i])])

\* the table of n strings with the names of the tree added
TableWithNames(n, el) == FirstUses(NameUses(el), Table(n))

\* some value of the tree is an RleString
RECURSIVE HasRle(_)
HasRle(el) ==
    \/ \E k \in DOMAIN el.attributes : el.attributes[k].tag = "RleString"
    \/ \E i \in DOMAIN el.children : HasRle(el.children[i])

\* the element has one attribute, a String: its value
OneString(el) ==
    /\ Cardinality(DOMAIN el.attributes) = 1
    /\ \A k \in DOMAIN el.attributes : el.attributes[k].tag = "String"

TheString(el) == el.attributes[CHOOSE k \in DOMAIN el.attributes : TRUE].val

\* the sequence does not hold the string
NotIn(seq, str) == \A i \in DOMAIN seq : seq[i] # str

(***************************************************************************)
(* C13: the string table never grows past 65,535 entries because of string *)
(* values: a String of 64 bytes or more is written raw with tag 6 and not  *)
(* inserted, and a shorter one that would need a slot beyond the limit is  *)
(* written raw with tag 6 instead of being added, so a document whose only *)
(* excess unique strings are attribute values is stored successfully.      *)
(***************************************************************************)
C13_ValuesKeepLimit ==
    phase = "tail_stored"
       => /\ (result.ok /\ OneString(input.el)
                /\ Len(TheString(input.el)) >= 64)
                => /\ result.out[6] = 6
                   /\ NotIn(result.added, TheString(input.el))
          /\ (result.ok /\ OneString(input.el)
                /\ Len(TheString(input.el)) < 64
                /\ Len(TableWithNames(input.lookup_length, input.el)) >= 65535
                /\ NotIn(TableWithNames(input.lookup_length, input.el),
                         TheString(input.el)))
                => /\ result.out[6] = 6
                   /\ NotIn(result.added, TheString(input.el))
          /\ (/\ ~TooManyAttributes(input.el)
              /\ ~TooManyChildren(input.el)
              /\ ~HasRle(input.el)
              /\ Len(TableWithNames(input.lookup_length, input.el)) <= 65535)
                => /\ written.ok
                   /\ result.lookup_length <= 65535

(***************************************************************************)
(* C14: encoding fails with an error exactly when some element has more    *)
(* than 255 attributes, some element has more than 65,535 children, or an  *)
(* element name or attribute name would need a string-table index beyond   *)
(* the 16-bit limit; a tree within all three limits does not fail.         *)
(* Stated for trees without RleString values (write_rle_string has its own *)
(* limit), the names needing more than 65,535 table entries being the      *)
(* third case.                                                             *)
(***************************************************************************)
C14_CapacityErrors ==
    (phase = "tail_stored" /\ ~HasRle(input.el))
       => (~written.ok
             <=> \/ TooManyAttributes(input.el)
                 \/ TooManyChildren(input.el)
                 \/ Len(TableWithNames(input.lookup_length, input.el)) > U16Max)

(***************************************************************************)
(* C25: when Map::store fails on an encode-time capacity condition (too    *)
(* many attributes, children or unique strings, an RLE text too large), no *)
(* byte has been written to the caller's stream; when it succeeds, the     *)
(* stream holds the header (if asked for), the package, the table's count  *)
(* and strings and the bytes of the tree, in that order, the table being   *)
(* the one the whole tree's encoding left.                                 *)
(***************************************************************************)
C25_NothingWrittenOnError ==
    phase = "tail_stored"
       => /\ ~written.ok => stream = << >>
          /\ written.ok
                => /\ result.ok
                   /\ result.lookup_length <= U16Max
                   /\ stream = (IF call.a = 1 THEN write_string(S("CELESTE MAP"))
                                ELSE << >>)
                                  \o write_string(S("pkg"))
                                  \o u16_le(result.lookup_length)
                                  \o write_lookup(Table(input.lookup_length)
                                                     \o result.added)
                                  \o result.out

\* a store with a header has failed on the size of the table, after the
\* whole tree was encoded, and the stream is empty
C25_Witness ==
    /\ phase = "tail_stored"
    /\ call.a = 1
    /\ ~written.ok
    /\ result.ok
    /\ result.lookup_length > U16Max
    /\ stream = << >>

(***************************************************************************)
(* C15: Map::load and Map::store report every failure as a returned error  *)
(* value: load returns Ok or Err on every stream, and store returns Ok or  *)
(* Err on every map that load returned, levels under 8 pixels wide or high *)
(* included; neither panics.                                               *)
(***************************************************************************)
C15_NoPanic ==
    /\ phase \in {"map_loaded", "map_stored", "map_reloaded"}
          => (input.ok \/ input.err.kind # "panic")
    /\ phase \in {"map_stored", "map_reloaded"}
          => (written.ok \/ written.err.kind # "panic")
    /\ phase = "map_reloaded" => (result.ok \/ result.err.kind # "panic")

(***************************************************************************)
(* The typed decode of one attribute at a time: Decal::try_from,           *)
(* Filler::try_from, Entity::try_from, LevelData::load_from and            *)
(* Map::try_from (for the color of the Style child) on an element that has *)
(* one recognised attribute, with a value of each kind.                    *)
(***************************************************************************)
\* recognised fields and the type the structure gives them
CoerceFields ==
    {[target |-> "decal", field |-> "x", kind |-> "Float"],
     [target |-> "decal", field |-> "rotation", kind |-> "Float"],
     [target |-> "decal", field |-> "depth", kind |-> "Integer"],
     [target |-> "decal", field |-> "texture", kind |-> "String"],
     [target |-> "decal", field |-> "color", kind |-> "String"],
     [target |-> "rect", field |-> "x", kind |-> "Integer"],
     [target |-> "rect", field |-> "w", kind |-> "Integer"],
     [target |-> "entity", field |-> "id", kind |-> "Integer"],
     [target |-> "entity", field |-> "x", kind |-> "Float"],
     [target |-> "entity", field |-> "width", kind |-> "Integer"],
     [target |-> "entity", field |-> "height", kind |-> "Integer"],
     [target |-> "entity", field |-> "originY", kind |-> "Float"],
     [target |-> "level", field |-> "x", kind |-> "Integer"],
     [target |-> "level", field |-> "width", kind |-> "Integer"],
     [target |-> "level", field |-> "c", kind |-> "Integer"],
     [target |-> "level", field |-> "cameraOffsetY", kind |-> "Integer"],
     [target |-> "level", field |-> "enforceDashNumber", kind |-> "Integer"],
     [target |-> "level", field |-> "windPattern", kind |-> "String"],
     [target |-> "level", field |-> "musicProgress", kind |-> "String"],
     [target |-> "level", field |-> "underwater", kind |-> "Boolean"],
     [target |-> "map", field |-> "_package", kind |-> "String"],
     [target |-> "style", field |-> "color", kind |-> "String"]}

\* 2.5, -2.5, 0.75 and 16.0 as f32
F2_5 == f32(0, 128, 2097152)
FNeg2_5 == f32(1, 128, 2097152)
F0_75 == f32(0, 126, 4194304)
F16 == f32(0, 131, 0)

\* the texts "00ff00" and "5"
GreenText == <<48, 48, 102, 102, 48, 48>>
FiveText == <<53>>

CoerceValues ==
    <<Integer(5), Integer(-3), Integer(0),
      Float(F2_5), Float(FNeg2_5), Float(F0_75), Float(F16),
      String(GreenText), String(FiveText),
      RleString(GreenText), RleString(FiveText),
      Boolean(TRUE)>>

\* the element of the target with the one attribute
CoerceElement(target, field, v) ==
    CASE target = "decal" -> Element("decal", attrs_of(<<<<field, v>>>>), << >>)
      [] target = "rect" -> Element("rect", attrs_of(<<<<field, v>>>>), << >>)
      [] target = "entity" -> Element("spinner", attrs_of(<<<<field, v>>>>), << >>)
      [] target = "level" -> Element("level", attrs_of(<<<<field, v>>>>), << >>)
      [] target = "map" -> Element("Map", attrs_of(<<<<field, v>>>>), << >>)
      [] target = "style" ->
           Element("Map", attrs_of(<< >>),
                   <<Element("Style", attrs_of(<<<<field, v>>>>), << >>)>>)

\* the conversion of the target
Coerced(target, el) ==
    CASE target = "decal" -> Decal_try_from(el)
      [] target = "rect" -> Filler_try_from(el)
      [] target = "entity" -> Entity_try_from(el)
      [] target = "level" -> LevelData_load_from(el)
      [] target \in {"map", "style"} -> Map_try_from(el)

InitCoerce ==
    /\ NoGrid
    /\ NoCodec
    /\ phase = "coerce_start"

\* T::try_from(el) on the element with the attribute field = v
Coerce(f, v) ==
    /\ phase = "coerce_start"
    /\ input' = [target |-> f.target, field |-> f.field, kind |-> f.kind, value |-> v]
    /\ result' = Coerced(f.target, CoerceElement(f.target, f.field, v))
    /\ phase' = "coerced"
    /\ UNCHANGED <<grid, written, stream>>

NextCoerce == \E f \in CoerceFields : \E k \in DOMAIN CoerceValues : Coerce(f, CoerceValues[k])

SpecCoerce == InitCoerce /\ [][NextCoerce]_vars

\* the sample floats truncated toward zero, and the sample integers as f32
Truncated(f) ==
    CASE f = F2_5 -> 2 [] f = FNeg2_5 -> -2 [] f = F0_75 -> 0 [] f = F16 -> 16

Widened(n) ==
    CASE n = 5 -> f32(0, 129, 2097152) [] n = -3 -> f32(1, 128, 4194304)
      [] n = 0 -> f32(0, 0, 0)

\* the field type takes a value of the kind
Accepts(ty, tag) ==
    \/ ty = tag
    \/ ty = "Integer" /\ tag = "Float"
    \/ ty = "Float" /\ tag = "Integer"
    \/ ty = "String" /\ tag = "RleString"

\* the value of the field's own kind that the coercion stands for
Canonical(ty, v) ==
    CASE ty = v.tag -> v
      [] ty = "Integer" /\ v.tag = "Float" -> Integer(Truncated(v.val))
      [] ty = "Float" /\ v.tag = "Integer" -> Float(Widened(v.val))
      [] ty = "String" /\ v.tag = "RleString" -> String(v.val)

(***************************************************************************)
(* C16: the typed decode applies the same coercion to every recognised     *)
(* attribute: an integer field (the optional Entity width/height and Level *)
(* enforceDashNumber too) takes a Float truncated toward zero, a float     *)
(* field takes an Integer, a string field (the Style color too) takes an   *)
(* RleString; a value of any other kind fails with InvalidFieldType naming *)
(* the field.                                                              *)
(***************************************************************************)
C16_UniformCoercion ==
    phase = "coerced"
       => IF Accepts(input.kind, input.value.tag)
          THEN /\ result # LoadError("InvalidFieldType", input.field)
               /\ result = Coerced(input.target,
                              CoerceElement(input.target, input.field,
                                            Canonical(input.kind, input.value)))
          ELSE result = LoadError("InvalidFieldType", input.field)

\* the root element of the file that was loaded
LoadedRoot ==
    Element_decode(stream, StoredParts(stream, TRUE).tree,
                   StoredParts(stream, TRUE).table).val

\* the children whose name is not one of the names, in their order
ExtraOf(children, names) ==
    SelectSeq(children, LAMBDA child : child.name \notin names)

\* the children of the last child of the name
GroupOf(children, name) ==
    IF \A i \in DOMAIN children : children[i].name # name THEN << >>
    ELSE children[CHOOSE i \in DOMAIN children :
                     /\ children[i].name = name
                     /\ \A j \in DOMAIN children :
                           children[j].name = name => j <= i].children

MapChildNames == {"Filler", "Style", "levels"}
LevelChildNames ==
    {"entities", "triggers", "bgdecals", "fgdecals", "bg", "bgtiles", "fgtiles",
     "solids", "objtiles"}

\* the entities hold the unrecognised attributes of the elements
EntitiesKeep(entities, elements) ==
    /\ Len(entities) = Len(elements)
    /\ \A j \in DOMAIN elements :
          entities[j].values = without(elements[j].attributes, EntityFields)

\* the level holds the unrecognised attributes and children of the element,
\* and so do its entities
LevelKeeps(level, el) ==
    /\ level.extra_data = without(el.attributes, LevelDataFields \cup {"name"})
    /\ level.extra_children = ExtraOf(el.children, LevelChildNames)
    /\ EntitiesKeep(level.entities, GroupOf(el.children, "entities"))
    /\ EntitiesKeep(level.triggers, GroupOf(el.children, "triggers"))

\* the map holds the unrecognised attributes and children of the element,
\* and so do its levels
MapKeeps(m, el) ==
    /\ m.extra_data = without(el.attributes, {"_package"})
    /\ m.extra_children = ExtraOf(el.children, MapChildNames)
    /\ Len(m.levels) = Len(GroupOf(el.children, "levels"))
    /\ \A i \in DOMAIN m.levels :
          LevelKeeps(m.levels[i], GroupOf(el.children, "levels")[i])

\* the element that the map was turned into has them all
Reemits(m, back) ==
    /\ back.ok
    /\ MapKeeps(m, back.val)

(***************************************************************************)
(* C17: for the root Map element, every level element and every entity    *)
(* element, each attribute that is no recognised field is unchanged in the *)
(* passthrough map of the object, each child of the root or of a level     *)
(* that is not recognised is unchanged and in its order in extra_children, *)
(* and converting the object back to an Element re-emits all of them.      *)
(***************************************************************************)
C17_Passthrough ==
    (phase = "map_loaded" /\ input.ok)
       => /\ MapKeeps(input.val, LoadedRoot)
          /\ Reemits(input.val, Element_from_Map(input.val))

(***************************************************************************)
(* LevelData::load_from on a level element whose musicProgress or          *)
(* ambienceProgress attribute is absent or holds one of the texts, as a    *)
(* String or an RleString, and LevelData::store_to on the data it returned.*)
(***************************************************************************)
\* texts with what they are as decimal numbers: valid says the text is a
\* 32-bit signed integer, value which one, decimal how that integer prints
ProgressTexts ==
    <<[text |-> << >>, valid |-> FALSE, value |-> 0, decimal |-> << >>],
      [text |-> <<48>>, valid |-> TRUE, value |-> 0, decimal |-> <<48>>],
      [text |-> <<53>>, valid |-> TRUE, value |-> 5, decimal |-> <<53>>],
      [text |-> <<45, 53>>, valid |-> TRUE, value |-> -5, decimal |-> <<45, 53>>],
      [text |-> <<43, 53>>, valid |-> TRUE, value |-> 5, decimal |-> <<53>>],
      [text |-> <<48, 48, 55>>, valid |-> TRUE, value |-> 7, decimal |-> <<55>>],
      [text |-> <<45, 48>>, valid |-> TRUE, value |-> 0, decimal |-> <<48>>],
      [text |-> <<49, 50, 48>>, valid |-> TRUE, value |-> 120,
       decimal |-> <<49, 50, 48>>],
      [text |-> <<50, 49, 52, 55, 52, 56, 51, 54, 52, 55>>, valid |-> TRUE,
       value |-> 2147483647,
       decimal |-> <<50, 49, 52, 55, 52, 56, 51, 54, 52, 55>>],
      [text |-> <<45, 50, 49, 52, 55, 52, 56, 51, 54, 52, 56>>, valid |-> TRUE,
       value |-> -2147483647 - 1,
       decimal |-> <<45, 50, 49, 52, 55, 52, 56, 51, 54, 52, 56>>],
      [text |-> <<50, 49, 52, 55, 52, 56, 51, 54, 52, 56>>, valid |-> FALSE,
       value |-> 0, decimal |-> << >>],
      [text |-> <<45, 50, 49, 52, 55, 52, 56, 51, 54, 52, 57>>, valid |-> FALSE,
       value |-> 0, decimal |-> << >>],
      [text |-> <<57, 57, 57, 57, 57, 57, 57, 57, 57, 57, 57>>, valid |-> FALSE,
       value |-> 0, decimal |-> << >>],
      [text |-> <<97>>, valid |-> FALSE, value |-> 0, decimal |-> << >>],
      [text |-> <<53, 97>>, valid |-> FALSE, value |-> 0, decimal |-> << >>],
      [text |-> <<32, 53>>, valid |-> FALSE, value |-> 0, decimal |-> << >>],
      [text |-> <<53, 32>>, valid |-> FALSE, value |-> 0, decimal |-> << >>],
      [text |-> <<45>>, valid |-> FALSE, value |-> 0, decimal |-> << >>],
      [text |-> <<43>>, valid |-> FALSE, value |-> 0, decimal |-> << >>],
      [text |-> <<45, 45, 53>>, valid |-> FALSE, value |-> 0, decimal |-> << >>],
      [text |-> <<49, 46, 53>>, valid |-> FALSE, value |-> 0, decimal |-> << >>],
      [text |-> <<195, 169>>, valid |-> FALSE, value |-> 0, decimal |-> << >>]>>

ProgressFields == {"musicProgress", "ambienceProgress"}

InitProgress ==
    /\ NoGrid
    /\ NoCodec
    /\ phase = "progress_start"

\* LevelData::load_from(el) on a level element with these attributes
LoadProgress(field, present, k, tag, attributes) ==
    /\ phase = "progress_start"
    /\ input' = [field |-> field, present |-> present, sample |-> k, tag |-> tag]
    /\ result' = LevelData_load_from(Element("level", attributes, << >>))
    /\ phase' = "progress_loaded"
    /\ UNCHANGED <<grid, written, stream>>

\* LevelData::store_to(el) on the data that was loaded
StoreProgress ==
    /\ phase = "progress_loaded"
    /\ result.ok
    /\ written' = LevelData_store_to(result.val)
    /\ phase' = "progress_stored"
    /\ UNCHANGED <<grid, input, result, stream>>

NextProgress ==
    \/ \E field \in ProgressFields :
          LoadProgress(field, FALSE, 1, "None", attrs_of(<< >>))
    \/ \E field \in ProgressFields, k \in DOMAIN ProgressTexts :
          LoadProgress(field, TRUE, k, "String",
                       attrs_of(<<<<field, String(ProgressTexts[k].text)>>>>))
    \/ \E field \in ProgressFields, k \in DOMAIN ProgressTexts :
          LoadProgress(field, TRUE, k, "RleString",
                       attrs_of(<<<<field, RleString(ProgressTexts[k].text)>>>>))
    \/ StoreProgress

SpecProgress == InitProgress /\ [][NextProgress]_vars

\* the field of the LevelData
ProgressOf(level_data, field) ==
    IF field = "musicProgress" THEN level_data.music_progress
    ELSE level_data.ambience_progress

\* what the claim says the load returns for the sample
ProgressLoaded(field, present, sample, r) ==
    IF ~present \/ sample.text = << >>
    THEN r.ok /\ ProgressOf(r.val, field) = None
    ELSE IF sample.valid
    THEN r.ok /\ ProgressOf(r.val, field) = Some(sample.value)
    ELSE r = Err([kind |-> "InvalidFieldData", field |-> field,
                  text |-> sample.text])

\* what the claim says the store emits for the field of the sample, and for
\* the other field, which is absent
ProgressStored(field, present, sample, attributes) ==
    /\ ProgressFields \subseteq DOMAIN attributes
    /\ attributes[field] =
          String(IF present /\ sample.valid THEN sample.decimal ELSE << >>)
    /\ \A other \in ProgressFields \ {field} : attributes[other] = String(<< >>)

(***************************************************************************)
(* C18: for musicProgress and ambienceProgress, an absent attribute or an  *)
(* empty text decodes to an absent value, a non-empty text that parses as  *)
(* a 32-bit signed integer to that integer, any other non-empty text fails *)
(* with InvalidFieldData naming the field and carrying the text; encoding  *)
(* an absent value emits the attribute with empty text, a present value    *)
(* its decimal text.                                                       *)
(***************************************************************************)
C18_Progress ==
    /\ phase \in {"progress_loaded", "progress_stored"}
          => ProgressLoaded(input.field, input.present,
                            ProgressTexts[input.sample], result)
    /\ phase = "progress_stored"
          => ProgressStored(input.field, input.present,
                            ProgressTexts[input.sample], written)

\* the smallest i32 was read from its text and written back; and a text that
\* is no number was refused
C18_Witness ==
    /\ phase = "progress_stored"
    /\ input.present
    /\ ProgressTexts[input.sample].value = -2147483647 - 1
    /\ result.val.ambience_progress = Some(-2147483647 - 1)
    /\ written["ambienceProgress"].val = ProgressTexts[input.sample].decimal

(***************************************************************************)
(* parse_color on strings around the ones it takes: hexadecimal strings of *)
(* every length up to 10, and strings of 6 and 8 characters with one       *)
(* character that is no hexadecimal digit.                                 *)
(***************************************************************************)
\* "00ff00", "336699cc", "ABCDEF", "abcdef01", "09AFaf78", "ffffffff"
ColorBases ==
    {<<48, 48, 102, 102, 48, 48>>,
     <<51, 51, 54, 54, 57, 57, 99, 99>>,
     <<65, 66, 67, 68, 69, 70>>,
     <<97, 98, 99, 100, 101, 102, 48, 49>>,
     <<48, 57, 65, 70, 97, 102, 55, 56>>,
     <<102, 102, 102, 102, 102, 102, 102, 102>>}

\* characters next to the hexadecimal digits and others that are none, as
\* UTF-8: / : @ G ` g space + - x and the two-byte e-acute
OtherChars ==
    {<<47>>, <<58>>, <<64>>, <<71>>, <<96>>, <<103>>, <<32>>, <<43>>, <<45>>,
     <<120>>, <<195, 169>>}

\* the string with the character at position i replaced
Replaced(s, i, c) == SubSeq(s, 1, i - 1) \o c \o SubSeq(s, i + 1, Len(s))

ColorStrings ==
    UNION {{SubSeq(b, 1, n) : n \in 0 .. Len(b)} : b \in ColorBases}
       \cup {b \o SubSeq(b, 1, n) : b \in ColorBases, n \in 1 .. 4}
       \cup UNION {{Replaced(b, i, c) : i \in 1 .. Len(b), c \in OtherChars} :
                      b \in ColorBases}

InitColor ==
    /\ NoGrid
    /\ NoCodec
    /\ phase = "color_start"

\* parse_color(color_string)
ParseColor(color_string) ==
    /\ phase = "color_start"
    /\ input' = color_string
    /\ result' = parse_color(color_string)
    /\ phase' = "color_parsed"
    /\ UNCHANGED <<grid, written, stream>>

NextColor == \E color_string \in ColorStrings : ParseColor(color_string)

SpecColor == InitColor /\ [][NextColor]_vars

\* the hexadecimal digits with their values
HexDigits ==
    (48 :> 0) @@ (49 :> 1) @@ (50 :> 2) @@ (51 :> 3) @@ (52 :> 4) @@ (53 :> 5)
       @@ (54 :> 6) @@ (55 :> 7) @@ (56 :> 8) @@ (57 :> 9)
       @@ (97 :> 10) @@ (98 :> 11) @@ (99 :> 12) @@ (100 :> 13) @@ (101 :> 14)
       @@ (102 :> 15)
       @@ (65 :> 10) @@ (66 :> 11) @@ (67 :> 12) @@ (68 :> 13) @@ (69 :> 14)
       @@ (70 :> 15)

\* the string is 6 or 8 characters, all of them hexadecimal digits
IsColor(s) ==
    /\ Len(chars(s)) \in {6, 8}
    /\ \A i \in DOMAIN chars(s) : chars(s)[i] \in DOMAIN HexDigits

\* the byte of the digit pair i
PairByte(s, i) == 16 * HexDigits[s[2 * i - 1]] + HexDigits[s[2 * i]]

(***************************************************************************)
(* C19: parse_color succeeds exactly on the strings of 6 or 8 characters   *)
(* that are all ASCII hexadecimal digits, and returns the bytes of the     *)
(* digit pairs in order as R, G, B, A, with A = 0xFF when there are 6      *)
(* digits; every other string fails with InvalidFieldData, without a       *)
(* panic.                                                                  *)
(***************************************************************************)
C19_ParseColor ==
    phase = "color_parsed"
       => IF IsColor(input)
          THEN /\ result.ok
               /\ result.val = <<PairByte(input, 1), PairByte(input, 2),
                                 PairByte(input, 3),
                                 IF Len(input) = 6 THEN 255
                                 ELSE PairByte(input, 4)>>
          ELSE /\ ~result.ok
               /\ result.err.kind = "InvalidFieldData"
               /\ result.err.field = "color"

\* "00ff00" was parsed: green, with the alpha that is filled in
C19_Witness ==
    /\ phase = "color_parsed"
    /\ input = <<48, 48, 102, 102, 48, 48>>
    /\ result.ok
    /\ result.val = <<0, 255, 0, 255>>

(***************************************************************************)
(* From<Decal> for Element on decals whose fields are at and off their     *)
(* defaults, and Decal::try_from on the element it made.                   *)
(***************************************************************************)
\* -0.0, the smallest subnormal and +infinity as f32
FNeg0 == f32(1, 0, 0)
FTiny == f32(0, 0, 1)
FInf == f32(0, 255, 0)

DecalFloats == {F0, FNeg0, F1, FNeg2_5, FTiny, FInf}
DecalDepths == {0, 1, -1, I32Min, I32Max}
DecalColors ==
    {White, <<255, 255, 255, 0>>, <<254, 255, 255, 255>>, <<0, 0, 0, 255>>,
     <<0, 15, 16, 171>>}
DecalTextures == {<< >>, <<97, 47, 98>>}
DecalScales == {<<F1, F1>>, <<FNeg0, FInf>>, <<FNeg2_5, F0>>}

InitDecal ==
    /\ NoGrid
    /\ NoCodec
    /\ phase = "decal_start"

\* Element::from(decal)
EncodeDecal(decal) ==
    /\ phase = "decal_start"
    /\ input' = decal
    /\ written' = Element_from_Decal(decal)
    /\ phase' = "decal_encoded"
    /\ UNCHANGED <<grid, result, stream>>

\* Decal::try_from(el) on the element that was made
DecodeDecal ==
    /\ phase = "decal_encoded"
    /\ result' = Decal_try_from(written)
    /\ phase' = "decal_decoded"
    /\ UNCHANGED <<grid, input, written, stream>>

NextDecal ==
    \/ \E x \in {F0, FNeg2_5}, scale \in DecalScales, texture \in DecalTextures,
          depth \in DecalDepths, rotation \in DecalFloats, color \in DecalColors :
          EncodeDecal([position |-> <<x, FTiny>>, scale |-> scale,
                       texture |-> texture, depth |-> depth,
                       rotation |-> rotation, color |-> color])
    \/ DecodeDecal

SpecDecal == InitDecal /\ [][NextDecal]_vars

\* a == b for two f32 that are no NaN: the two zeros are equal
FloatEq(a, b) == a = b \/ (a.exp = 0 /\ a.mant = 0 /\ b.exp = 0 /\ b.mant = 0)

\* a == b for two Decals
DecalEq(a, b) ==
    /\ FloatEq(a.position[1], b.position[1])
    /\ FloatEq(a.position[2], b.position[2])
    /\ FloatEq(a.scale[1], b.scale[1])
    /\ FloatEq(a.scale[2], b.scale[2])
    /\ a.texture = b.texture
    /\ a.depth = b.depth
    /\ FloatEq(a.rotation, b.rotation)
    /\ a.color = b.color

(***************************************************************************)
(* C20: encoding a Decal omits the rotation attribute exactly when the     *)
(* rotation is 0, the depth attribute exactly when the depth is 0, the     *)
(* color attribute exactly when the color is opaque white, and always      *)
(* emits x, y, scaleX, scaleY and texture; decoding the element returns a  *)
(* Decal equal to the original, for every Decal with non-NaN floats.       *)
(***************************************************************************)
C20_DecalDefaults ==
    /\ phase \in {"decal_encoded", "decal_decoded"}
          => /\ written.name = "decal"
             /\ ("rotation" \notin DOMAIN written.attributes)
                   <=> FloatEq(input.rotation, F0)
             /\ ("depth" \notin DOMAIN written.attributes) <=> input.depth = 0
             /\ ("color" \notin DOMAIN written.attributes)
                   <=> input.color = <<255, 255, 255, 255>>
             /\ {"x", "y", "scaleX", "scaleY", "texture"}
                   \subseteq DOMAIN written.attributes
             /\ DOMAIN written.attributes
                   \subseteq {"x", "y", "scaleX", "scaleY", "texture", "rotation",
                              "depth", "color"}
    /\ phase = "decal_decoded" => (result.ok /\ DecalEq(result.val, input))

\* a decal with rotation -0.0, depth 0 and the opaque white was encoded
\* without the three attributes and decoded
C20_Witness ==
    /\ phase = "decal_decoded"
    /\ input.rotation = FNeg0
    /\ input.depth = 0
    /\ input.color = White
    /\ DOMAIN written.attributes = {"x", "y", "scaleX", "scaleY", "texture"}
    /\ result.ok
    /\ result.val.rotation = F0

(***************************************************************************)
(* From<Level> for Element on levels of several sizes, and Element::encode *)
(* of each of the five tile-layer children it makes.                       *)
(***************************************************************************)
\* "2147483647" seven times, joined by commas: a row of 76 bytes
LongRow ==
    join([i \in 1 .. 7 |-> <<50, 49, 52, 55, 52, 56, 51, 54, 52, 55>>], <<44>>)

TileLevelWidths == {0, 8, 16, 24, 56}
TileLevelHeights == {0, 8, 16}
\* "", "a", "0a" newline "b", "ab" newline "0b"
TileBgTexts == {<< >>, <<97>>, <<48, 97, 10, 98>>, <<97, 98, 10, 48, 98>>}
\* "", "5", "-1,5", "5" newline "7", "7,5,9" newline "-1,3", the long row
TileIdTexts ==
    {<< >>, <<53>>, <<45, 49, 44, 53>>, <<53, 10, 55>>,
     <<55, 44, 53, 44, 57, 10, 45, 49, 44, 51>>, LongRow}

TileLevelDoc(w, h, bg_text, id_text) ==
    Element("level",
            attrs_of(<<<<"width", Integer(w)>>, <<"height", Integer(h)>>>>),
            <<tiles_element("bg", RleString(bg_text)),
              tiles_element("solids", String(bg_text)),
              tiles_element("bgtiles", String(id_text)),
              tiles_element("fgtiles", RleString(id_text))>>)

TileLayers == {"bg", "bgtiles", "fgtiles", "objtiles", "solids"}

\* the child of the name
ChildNamed(children, name) ==
    children[CHOOSE i \in DOMAIN children : children[i].name = name]

\* the bytes Element::encode writes for each tile-layer child of the element
TileWire(el) ==
    [name \in TileLayers |->
        Element_encode(ChildNamed(el.children, name), Writer(<< >>, << >>))]

InitTiles ==
    /\ NoGrid
    /\ NoCodec
    /\ phase = "tiles_start"

\* Element::from(level) and the encoding of its tile layers, level being
\* what Level::try_from returned
StoreLevel(level) ==
    /\ phase = "tiles_start"
    /\ level.ok
    /\ input' = level.val
    /\ written' = Element_from_Level(level.val)
    /\ result' = IF written'.ok THEN TileWire(written'.val) ELSE << >>
    /\ phase' = "tiles_stored"
    /\ UNCHANGED <<grid, stream>>

NextTiles ==
    \E w \in TileLevelWidths, h \in TileLevelHeights,
       bg_text \in TileBgTexts, id_text \in TileIdTexts :
       StoreLevel(Level_try_from(TileLevelDoc(w, h, bg_text, id_text)))

SpecTiles == InitTiles /\ [][NextTiles]_vars

\* the tag byte of the innerText of a tile-layer child as it was written:
\* after the name index, the attribute count and the key index
WireTag(wire) == wire.val.out[6]

(***************************************************************************)
(* C21: when a Level is stored, the text of each integer tilemap (bgtiles, *)
(* fgtiles, objtiles) is written as a raw length-prefixed string with tag  *)
(* 6 for every grid size, never as a table reference (tag 5) and never RLE *)
(* (tag 7); the text of each character tilemap (bg, solids) is written     *)
(* with tag 7.                                                             *)
(***************************************************************************)
C21_TileTags ==
    (phase = "tiles_stored" /\ written.ok)
       => /\ \A name \in {"bgtiles", "fgtiles", "objtiles"} :
                result[name].ok /\ WireTag(result[name]) = 6
          /\ \A name \in {"bg", "solids"} :
                result[name].ok /\ WireTag(result[name]) = 7

(***************************************************************************)
(* Tilemap::store on the grids that Tilemap::new and writes through        *)
(* get_mut make, Tilemap::load on the text it returned, and Tilemap::load  *)
(* on texts that do not fit the shape they are loaded into.                *)
(***************************************************************************)
TextWidths == 0 .. 3
TextHeights == 0 .. 2
\* the cells written: the empty sentinel and tiles, one of them ('e' with an
\* acute accent, U+00E9) two bytes long in UTF-8; a negative and a large id
TextCells(k) == IF k = "i32" THEN {-1, -12, I32Max} ELSE {48, 97, 233}

\* the grids of the shape with cells among the values
GridsOf(k, w, h) == {Grid(w, h, d) : d \in [1 .. w * h -> TextCells(k)]}

\* texts with a shape they are loaded into and the cells the shape then has
\* "5,x,7" ; "5,,7" ; " 5 ,+3" ; "1,2,3" newline "4" newline "5" into 2 by 2;
\* "5" into 2 by 2; "1,2" CR LF "3" ; "1.5,0x10,--1,99999999999"
IdTexts ==
    <<[text |-> <<53, 44, 120, 44, 55>>, w |-> 3, h |-> 1, cells |-> <<5, -1, 7>>],
      [text |-> <<53, 44, 44, 55>>, w |-> 3, h |-> 1, cells |-> <<5, -1, 7>>],
      [text |-> <<32, 53, 32, 44, 43, 51>>, w |-> 2, h |-> 1, cells |-> <<5, 3>>],
      [text |-> <<49, 44, 50, 44, 51, 10, 52, 10, 53>>, w |-> 2, h |-> 2,
       cells |-> <<1, 2, 4, -1>>],
      [text |-> <<53>>, w |-> 2, h |-> 2, cells |-> <<5, -1, -1, -1>>],
      [text |-> <<49, 44, 50, 13, 10, 51>>, w |-> 2, h |-> 2,
       cells |-> <<1, 2, 3, -1>>],
      [text |-> <<49, 46, 53, 44, 48, 120, 49, 48, 44, 45, 45, 49, 44,
                  57, 57, 57, 57, 57, 57, 57, 57, 57, 57, 57>>,
       w |-> 3, h |-> 1, cells |-> <<-1, -1, -1>>],
      [text |-> <<53, 44, 55>>, w |-> 0, h |-> 0, cells |-> << >>],
      [text |-> << >>, w |-> 1, h |-> 1, cells |-> <<-1>>]>>

\* "abc" newline "d" newline "e" into 2 by 2; "a" into 2 by 2; "a,b" into
\* 3 by 1 (a comma is a cell); "ab" CR LF "c" ; "" ; "ab" into 0 by 0
CharTexts ==
    <<[text |-> <<97, 98, 99, 10, 100, 10, 101>>, w |-> 2, h |-> 2,
       cells |-> <<97, 98, 100, 48>>],
      [text |-> <<97>>, w |-> 2, h |-> 2, cells |-> <<97, 48, 48, 48>>],
      [text |-> <<97, 44, 98>>, w |-> 3, h |-> 1, cells |-> <<97, 44, 98>>],
      [text |-> <<97, 98, 13, 10, 99>>, w |-> 2, h |-> 2,
       cells |-> <<97, 98, 99, 48>>],
      [text |-> << >>, w |-> 1, h |-> 2, cells |-> <<48, 48>>],
      [text |-> <<97, 98>>, w |-> 0, h |-> 0, cells |-> << >>]>>

\* Tilemap::<T>::store, T being char or i32
Tilemap_store(k, t) == IF k = "char" THEN store_char(t) ELSE store_i32(t)

\* Tilemap::<T>::load
Tilemap_load(k, s, w, h) == IF k = "char" THEN load_char(s, w, h) ELSE load_i32(s, w, h)

InitText ==
    /\ NoGrid
    /\ NoCodec
    /\ phase = "text_start"

\* t.store()
StoreGrid(k, t) ==
    /\ phase = "text_start"
    /\ input' = [kind |-> k, grid |-> t]
    /\ written' = Tilemap_store(k, t)
    /\ phase' = "text_stored"
    /\ UNCHANGED <<grid, stream, result>>

\* Tilemap::load(text, t.width(), t.height()) on the text that was stored
LoadStored ==
    /\ phase = "text_stored"
    /\ written.ok
    /\ result' = Tilemap_load(input.kind, written.val,
                              input.grid.width, input.grid.height)
    /\ phase' = "text_loaded"
    /\ UNCHANGED <<grid, stream, input, written>>

\* Tilemap::load(text, w, h) on a text
LoadText(k, sample) ==
    /\ phase = "text_start"
    /\ input' = [kind |-> k, sample |-> sample]
    /\ result' = Tilemap_load(k, sample.text, sample.w, sample.h)
    /\ phase' = "text_parsed"
    /\ UNCHANGED <<grid, stream, written>>

NextText ==
    \/ \E k \in {"char", "i32"}, w \in TextWidths, h \in TextHeights :
          \E t \in GridsOf(k, w, h) : StoreGrid(k, t)
    \/ LoadStored
    \/ \E i \in DOMAIN IdTexts : LoadText("i32", IdTexts[i])
    \/ \E i \in DOMAIN CharTexts : LoadText("char", CharTexts[i])

SpecText == InitText /\ [][NextText]_vars

\* the w cells of row r, each as its UTF-8 bytes
RawRow(t, r) ==
    flatten([x \in 1 .. t.width |-> utf8(t.data[(r - 1) * t.width + x])])

\* the h rows joined by newlines
RawText(t) == join([r \in 1 .. t.height |-> RawRow(t, r)], <<10>>)

(***************************************************************************)
(* C22: the text form of a character tilemap of width w and height h is    *)
(* exactly h rows joined by newlines, each row being exactly the w raw     *)
(* cell characters of that row in order, empty cells (trailing ones too)   *)
(* written as the empty-sentinel character, nothing compressed or dropped. *)
(***************************************************************************)
C22_CharText ==
    (phase \in {"text_stored", "text_loaded"} /\ input.kind = "char")
       => /\ written.ok
          /\ written.val = RawText(input.grid)

(***************************************************************************)
(* C27: for every integer or character tilemap t of any width >= 0 and     *)
(* height >= 0, without line breaks or separators in its cells, t.store()  *)
(* returns a text and Tilemap::load of that text with t's width and height *)
(* returns a tilemap equal to t; and load does not fail on a text: an      *)
(* integer cell that does not parse becomes -1, and the rows and columns   *)
(* of the text beyond the declared shape are ignored.                      *)
(***************************************************************************)
C27_TextRoundTrip ==
    /\ phase = "text_stored" => written.ok
    /\ phase = "text_loaded" => result = Some(input.grid)
    /\ phase = "text_parsed"
          => result = Some(Grid(input.sample.w, input.sample.h, input.sample.cells))

(***************************************************************************)
(* Tree scenario: an element tree is encoded on an empty buffer with a     *)
(* table that already holds n strings, and the bytes are decoded with the  *)
(* table as the encoder left it.                                           *)
(***************************************************************************)
\* the trees handed to Element::encode besides those of the store scenario
DeepElements ==
    <<Element("a", attrs_of(<<<<"x", Boolean(TRUE)>>, <<"y", Boolean(FALSE)>>,
                              <<"w", Float(F2_5)>>, <<"h", Float(FNeg0)>>,
                              <<"c", Integer(-129)>>, <<"id", Integer(70000)>>,
                              <<"name", Integer(200)>>>>), << >>),
      Element("meta", attrs_of(<<<<"meta", String(S("meta"))>>,
                                 <<"a", String(S("meta"))>>,
                                 <<"x", String(<< >>)>>,
                                 <<"y", RleString(<< >>)>>>>), << >>),
      Element("node", attrs_of(<<<<"x", String(S("zz"))>>>>),
              <<Element("node", attrs_of(<<<<"x", String(S("zz"))>>>>),
                        <<Element("extra", attrs_of(<<<<"zz", String(S("x"))>>>>),
                                  << >>)>>),
                Element("a", attrs_of(<<<<"a", RleString(<<97, 97, 97, 97, 98>>)>>,
                                        <<"c", String(LongText)>>>>), << >>),
                Element("zz", NoAttrs, << >>)>>),
      Element("a", attrs_of(<<<<"x", String(S("5"))>>, <<"y", RleString(S("5"))>>,
                              <<"w", Integer(5)>>, <<"h", Float(FInf)>>>>),
              <<Element("a", NoAttrs, <<Element("a", NoAttrs, << >>)>>),
                Element("a", NoAttrs, << >>)>>),
      Element("extra", attrs_of(<<<<"extra", String(<<195, 169>>)>>,
                                  <<"c", RleString(<<195, 169, 195, 169>>)>>,
                                  <<"id", Integer(I32Min)>>,
                                  <<"x", Integer(-32769)>>>>),
              <<Element("extra", attrs_of(<<<<"id", String(S("extra"))>>>>), << >>)>>)>>

TreeElements == TailElements \o DeepElements

InitTree ==
    /\ NoGrid
    /\ NoCodec
    /\ phase = "tree_start"

\* el.encode(&mut buf, &mut strings) where strings holds n strings
EncodeTree(n, el) ==
    /\ phase = "tree_start"
    /\ input' = [lookup_length |-> n, el |-> el]
    /\ written' = Encoded(n, Element_encode(el, Writer(<< >>, Table(n))))
    /\ phase' = "tree_encoded"
    /\ UNCHANGED <<grid, stream, result>>

\* Element::decode(&mut bytes, &lookup) with the encoder's table
DecodeTree ==
    /\ phase = "tree_encoded"
    /\ written.ok
    /\ result' = Element_decode(written.out, 1,
                                Table(input.lookup_length) \o written.added)
    /\ phase' = "tree_decoded"
    /\ UNCHANGED <<grid, input, written, stream>>

NextTree ==
    \/ \E n \in TableSizes, k \in DOMAIN TreeElements : EncodeTree(n, TreeElements[k])
    \/ DecodeTree

SpecTree == InitTree /\ [][NextTree]_vars

(***************************************************************************)
(* C24: for every element tree e on which Element::encode succeeds,        *)
(* Element::decode of the bytes it wrote, with the string table built      *)
(* during that encode, returns an element equal to e: a String stays a     *)
(* String whether written as an index or raw, an RleString an RleString,   *)
(* and the integers, floats and booleans keep their values.                *)
(***************************************************************************)
C24_TreeRoundTrip ==
    phase = "tree_decoded"
       => /\ result.ok
          /\ result.val = input.el
          /\ result.pos = Len(written.out) + 1

\* a nested tree with a String written raw because the table is full, a
\* String written by index and an RleString has been decoded
C24_Witness ==
    /\ phase = "tree_decoded"
    /\ input.lookup_length >= U16Max
    /\ input.el.children # << >>
    /\ \E k \in DOMAIN input.el.attributes :
          /\ input.el.attributes[k].tag = "String"
          /\ Len(input.el.attributes[k].val) < LookupCutoff
    /\ result.ok
    /\ result.val = input.el

(***************************************************************************)
(* Container scenario: an Element is turned into a Map and the Map into an *)
(* Element again, on a family of documents that carry, besides what the    *)
(* typed layer names, content on the structural containers: an attribute   *)
(* or a child on Style, an attribute on the Filler, levels, entities or    *)
(* bgdecals container or on the bg tile layer, and an entities container   *)
(* that occurs twice in the level.                                         *)
(***************************************************************************)
ContainerExtras ==
    {"style_attr", "style_child", "filler_attr", "levels_attr", "entities_attr",
     "bgdecals_attr", "tile_attr", "twice"}

\* the attribute an unrecognised place carries
ExtraAttr(present) == attrs_of(attr_if(present, "extra", Integer(5)))

ContainerLevelDoc(extras) ==
    Element("level",
            attrs_of(<<<<"name", String(S("lvl_a"))>>,
                       <<"width", Integer(8)>>, <<"height", Integer(8)>>>>),
            (IF "twice" \in extras
             THEN <<container("entities", <<[EntityDoc EXCEPT !.name = "meta"]>>)>>
             ELSE << >>)
               \o <<Element("entities", ExtraAttr("entities_attr" \in extras),
                            <<EntityDoc>>),
                    Element("bgdecals", ExtraAttr("bgdecals_attr" \in extras),
                            <<DecalDoc>>),
                    Element("bg",
                            extend(ExtraAttr("tile_attr" \in extras),
                                   attrs_of(<<<<"innerText", String(<<97>>)>>>>)),
                            << >>)>>)

ContainerDoc(extras) ==
    Element("Map",
            attrs_of(<<<<"_package", String(S("pkg"))>>>>),
            <<Element("Filler", ExtraAttr("filler_attr" \in extras),
                      <<Element("rect", attrs_of(<<<<"x", Integer(5)>>>>), << >>)>>),
              Element("Style",
                      extend(ExtraAttr("style_attr" \in extras),
                             attrs_of(<<<<"color", String(S("ff0000"))>>>>)),
                      <<container("Foregrounds", <<container("parallax", << >>)>>)>>
                         \o (IF "style_child" \in extras
                             THEN <<container("meta", <<container("a", << >>)>>)>>
                             ELSE << >>)),
              Element("levels", ExtraAttr("levels_attr" \in extras),
                      <<ContainerLevelDoc(extras)>>)>>)

InitContainers ==
    /\ NoGrid
    /\ NoCodec
    /\ phase = "containers_start"

\* Map::try_from(element)
ToMap(extras) ==
    /\ phase = "containers_start"
    /\ input' = [extras |-> extras, doc |-> ContainerDoc(extras)]
    /\ written' = Map_try_from(ContainerDoc(extras))
    /\ phase' = "containers_map"
    /\ UNCHANGED <<grid, stream, result>>

\* Element::from(map)
ToElement ==
    /\ phase = "containers_map"
    /\ written.ok
    /\ result' = Element_from_Map(written.val)
    /\ phase' = "containers_element"
    /\ UNCHANGED <<grid, input, written, stream>>

NextContainers ==
    \/ \E extras \in SUBSET ContainerExtras : ToMap(extras)
    \/ ToElement

SpecContainers == InitContainers /\ [][NextContainers]_vars

\* the children of the name, in their order
ChildrenNamed(children, name) ==
    SelectSeq(children, LAMBDA child : child.name = name)

\* some child of the name carries the extra attribute
HasExtraAttr(children, name) ==
    \E i \in DOMAIN children :
       /\ children[i].name = name
       /\ "extra" \in DOMAIN children[i].attributes
       /\ children[i].attributes["extra"] = Integer(5)

\* the children of the children of the name, one container after another
GrandchildrenNamed(children, name) ==
    flatten([i \in 1 .. Len(ChildrenNamed(children, name)) |->
               ChildrenNamed(children, name)[i].children])

\* the element holds the content that the extra put into the document
KeepsExtra(extra, el, level) ==
    CASE extra = "style_attr" -> HasExtraAttr(el.children, "Style")
      [] extra = "style_child" ->
           \E i \in DOMAIN GrandchildrenNamed(el.children, "Style") :
              GrandchildrenNamed(el.children, "Style")[i]
                 = container("meta", <<container("a", << >>)>>)
      [] extra = "filler_attr" -> HasExtraAttr(el.children, "Filler")
      [] extra = "levels_attr" -> HasExtraAttr(el.children, "levels")
      [] extra = "entities_attr" -> HasExtraAttr(level.children, "entities")
      [] extra = "bgdecals_attr" -> HasExtraAttr(level.children, "bgdecals")
      [] extra = "tile_attr" -> HasExtraAttr(level.children, "bg")
      [] extra = "twice" ->
           \E i \in DOMAIN GrandchildrenNamed(level.children, "entities") :
              GrandchildrenNamed(level.children, "entities")[i].name = "meta"

(***************************************************************************)
(* C26: content that the typed layer does not recognise on the structural  *)
(* containers is preserved by Element -> Map -> Element: the attributes of *)
(* Style other than color and its children other than Foregrounds and      *)
(* Backgrounds, the attributes on the Filler, levels, entities and         *)
(* bgdecals containers and on a tile layer besides innerText, and the      *)
(* contents of the earlier of two containers of one name.                  *)
(***************************************************************************)
C26_ContainersKeep ==
    /\ phase = "containers_map" => written.ok
    /\ phase = "containers_element"
          => /\ result.ok
             /\ \A extra \in input.extras :
                   KeepsExtra(extra, result.val,
                              GrandchildrenNamed(result.val.children, "levels")[1])

(***************************************************************************)
(* Level-size scenario: Level::try_from on level elements whose width and  *)
(* height attributes are negative, zero, within a tile, or whole tiles.    *)
(***************************************************************************)
LevelSizes == {-16, -8, -1, 0, 7, 8, 16}

InitLevelSize ==
    /\ NoGrid
    /\ NoCodec
    /\ phase = "size_start"

\* Level::try_from(element)
DecodeLevel(w, h, bg_text, id_text) ==
    /\ phase = "size_start"
    /\ input' = [w |-> w, h |-> h, bg_text |-> bg_text, id_text |-> id_text]
    /\ result' = Level_try_from(TileLevelDoc(w, h, bg_text, id_text))
    /\ phase' = "size_decoded"
    /\ UNCHANGED <<grid, written, stream>>

NextLevelSize ==
    \E w \in LevelSizes, h \in LevelSizes, bg_text \in BgTexts, id_text \in TileTexts :
        DecodeLevel(w, h, bg_text, id_text)

SpecLevelSize == InitLevelSize /\ [][NextLevelSize]_vars

\* the five tilemaps of a level
LevelTilemaps(level) ==
    <<level.bg, level.bg_tiles, level.fg_tiles, level.obj_tiles, level.solids>>

(***************************************************************************)
(* C28: decoding a level element whose width attribute is negative, or     *)
(* whose height attribute is negative, fails with InvalidFieldData naming  *)
(* that field, "width" or "height", and no tilemap is made; the tile       *)
(* dimensions of a decoded level are those of non-negative sizes, size / 8 *)
(* rounded down.                                                           *)
(***************************************************************************)
C28_NegativeSize ==
    phase = "size_decoded"
       => /\ (input.w < 0 \/ input.h < 0)
                => /\ ~result.ok
                   /\ result.err.kind = "InvalidFieldData"
                   /\ result.err.field
                         \in (IF input.w < 0 THEN {"width"} ELSE {})
                                \cup (IF input.h < 0 THEN {"height"} ELSE {})
          /\ result.ok
                => /\ input.w >= 0 /\ input.h >= 0
                   /\ \A i \in 1 .. 5 :
                         /\ LevelTilemaps(result.val)[i].width = input.w \div 8
                         /\ LevelTilemaps(result.val)[i].height = input.h \div 8

(***************************************************************************)
(* Level::resize (src/src/map_data.rs).  The level is its data.size and    *)
(* its five tilemaps; the `&&` chain stops at the first call that returns  *)
(* false, and a panic of a call ends it.                                   *)
(***************************************************************************)
\* the tilemaps in the order of the chain
ResizeOrder == <<"bg", "solids", "obj_tiles", "fg_tiles", "bg_tiles">>

\* the cell type of each
TilemapKind(name) == IF name \in {"bg", "solids"} THEN "char" ELSE "i32"

\* the tilemap after set_width returned a and, if it was called, set_height b
resized(ret, t, a, b) ==
    [ret |-> ret, map |-> Grid(a.width, b.height, b.data)]

\* self.t.set_width(width as usize) && self.t.set_height(height as usize)
resize_height(k, t, a, new_height) ==
    IF a.ret # "true"
    THEN resized(a.ret, t, a, [height |-> t.height, data |-> a.data])
    ELSE resized(set_height(k, a.width, t.height, a.data, new_height).ret, t, a,
                 set_height(k, a.width, t.height, a.data, new_height))

resize_tilemap(k, t, new_width, new_height) ==
    resize_height(k, t, set_width(k, t.width, t.height, t.data, new_width),
                  new_height)

RECURSIVE resize_from(_, _, _, _)
RECURSIVE resize_next(_, _, _, _, _)
\* the chain from tilemap i on; its last operand assigns data.size
resize_from(level, i, new_width, new_height) ==
    IF i > Len(ResizeOrder)
    THEN [ret |-> "true",
          level |-> [level EXCEPT !.data.size = <<new_width, new_height>>]]
    ELSE resize_next(level, i, new_width, new_height,
                     resize_tilemap(TilemapKind(ResizeOrder[i]),
                                    level[ResizeOrder[i]], new_width, new_height))

resize_next(level, i, new_width, new_height, r) ==
    IF r.ret # "true"
    THEN [ret |-> r.ret, level |-> [level EXCEPT ![ResizeOrder[i]] = r.map]]
    ELSE resize_from([level EXCEPT ![ResizeOrder[i]] = r.map], i + 1,
                     new_width, new_height)

\* Level::resize(&mut self, width, height): what it returns, "true", "false"
\* or "panic", and the level afterwards
Level_resize(level, new_width, new_height) ==
    IF new_width < 0 \/ new_height < 0 THEN [ret |-> "false", level |-> level]
    ELSE resize_from(level, 1, new_width, new_height)

(***************************************************************************)
(* Level-resize scenario: a level whose five tilemaps are w0 by h0, empty  *)
(* or with a tile in the first cell, is resized.                           *)
(***************************************************************************)
\* the arguments of resize: negative, small, and half of the usize range
ResizeArgs == {-1, HalfWord} \cup (0 .. MaxDim + 1)

\* a w0 by h0 tilemap, empty or with the tile as its first cell
TilemapWith(k, w0, h0, tile) ==
    Grid(w0, h0, [i \in 1 .. w0 * h0 |-> IF i = 1 THEN tile ELSE EMPTY(k)])

LevelWith(w0, h0, filled) ==
    [data |-> [size |-> <<w0, h0>>],
     bg |-> TilemapWith("char", w0, h0, IF filled THEN 97 ELSE 48),
     solids |-> TilemapWith("char", w0, h0, 48),
     obj_tiles |-> TilemapWith("i32", w0, h0, -1),
     fg_tiles |-> TilemapWith("i32", w0, h0, IF filled THEN 5 ELSE -1),
     bg_tiles |-> TilemapWith("i32", w0, h0, -1)]

InitLevelResize ==
    /\ NoGrid
    /\ NoCodec
    /\ phase = "resize_start"

\* level.resize(new_width, new_height)
ResizeLevel(level, new_width, new_height) ==
    /\ phase = "resize_start"
    /\ input' = [level |-> level, width |-> new_width, height |-> new_height]
    /\ result' = Level_resize(level, new_width, new_height)
    /\ phase' = "resized"
    /\ UNCHANGED <<grid, written, stream>>

NextLevelResize ==
    \E w0 \in 0 .. MaxDim, h0 \in 0 .. MaxDim, filled \in BOOLEAN,
       new_width \in ResizeArgs, new_height \in ResizeArgs :
        ResizeLevel(LevelWith(w0, h0, filled), new_width, new_height)

SpecLevelResize == InitLevelResize /\ [][NextLevelResize]_vars

====
